---- MODULE Spec2Model ----
(***************************************************************************)
(* Topic extraction and report synthesis pipeline of the News Column       *)
(* Generator: content synthesis (ContentAnalyzer), validation              *)
(* (ReportValidator), topic modeling (TopicModeler), topic selection       *)
(* (TopicSelector / TopicAnalyzer), relevance filtering                    *)
(* (NewsFilterAnalyzer) and the orchestration (BaseReportGenerator).       *)
(*                                                                         *)
(* A "backend call" is one invocation of LLMService.chat: it returns a     *)
(* text or raises.  The text is represented by what the parsers of the     *)
(* code extract from it.                                                   *)
(***************************************************************************)
EXTENDS Integers, Sequences, FiniteSets, TLC

VARIABLES
    \* ContentAnalyzer.generate_report_content, one invocation
    g_prompt,      \* TRUE iff the summaries and both prompts can be built (lines 63-95)
    g_pc,          \* "start", "loop", "returned", "raised"
    g_attempt,     \* the loop variable `attempt` (0-based)
    g_requests,    \* number of llm_service.chat invocations made so far
    g_result,      \* the dictionary returned to the caller
    g_log,         \* what each attempt obtained, in order
    \* TopicModeler._adjust_num_topics, called for growing batches
    a_n,           \* article_count
    a_min,         \* min_topics
    a_max,         \* max_topics
    a_k,           \* the topic count returned for a_n (0: not called yet)
    a_prev,        \* the topic count returned for a_n - 1
    \* TopicModeler.perform_topic_modeling, one invocation
    m_batch,       \* news_list: the articles of the batch, in order
    m_min,         \* the configured min_topics
    m_lda,         \* the fitted model: per modeled document, per topic, a probability (%)
    m_pc,          \* "start", "done"
    m_topics,      \* the returned topic list
    m_assigned,    \* per article (by position), the `topics` field after the call
    m_error,       \* the exception the call caught: "", "AttributeError", "LdaError"
    \* TopicAnalyzer.select_topics, one invocation
    s_topics,      \* topics_stats.topics: the Topic objects, in order
    s_pc,          \* "start", "done"
    s_response,    \* the lines of the selector's backend response
    s_parsed,      \* what _parse_topic_selection returned
    s_selected,    \* the returned list: positions in s_topics of the Topic objects
    \* NewsFilterAnalyzer.filter_related_news, one invocation
    f_ids,         \* news_list: the ids of the batch articles, in order
    f_published,   \* per article (by position), its published_at
    f_relevance,   \* per article (by position), the probability (%) of its
                   \* `topics` entry for the topic, 0 when it has none
    f_article_ids, \* topic.article_ids
    f_prompt,      \* TRUE iff the news_filtering prompts can be built
    f_pc,          \* "start", "returned"
    f_calls,       \* number of llm_service.chat invocations made
    f_step1,       \* topic_related_news (ids)
    f_response,    \* the backend response
    f_path,        \* how the call ended: "empty", "parsed", "fallback"
    f_result,      \* the returned articles (ids)
    \* BaseReportGenerator.execute, one run, with its process_topic tasks
    e_pc,          \* "start", "loaded", "analyzed", "running", "returned", "raised"
    e_news,        \* news_list
    e_topics,      \* topics_data.topics: the Topic objects, in order
    e_selector,    \* what the selector's backend call gave
    e_selected,    \* selected_topics: positions in e_topics
    tasks,         \* the process_topic coroutines handed to asyncio.gather; the log
                   \* of each holds "S" (content generated), "E" (generation
                   \* raised), "V+"/"V-" (validated), "A" (assembled)
    e_reports,     \* the list execute returns
    e_saved,       \* the reports file: "no", "written", "failed"
    e_finished,    \* the tasks in the order in which they ended
    e_topics_file, \* the topics file as analyze_news wrote it, <<>> when it did not
    \* ReportValidator.validate_content, one invocation
    v_report,      \* the title and the content passed in
    v_min,         \* the argument min_words (0: None)
    v_max,         \* the argument max_words (0: None)
    v_prompt,      \* TRUE iff the validation prompts can be built
    v_pc,          \* "start", "returned"
    v_calls,       \* number of llm_service.chat invocations made
    v_answer,      \* what the backend call gave
    v_valid,       \* the first component of the returned tuple
    \* LLMService.chat, one invocation under its tenacity retry
    c_too_large,   \* TRUE iff the prompts exceed the backend's context limit
    c_pc,          \* "calling", "returned", "raised"
    c_attempts,    \* what each attempt of the wrapped function ended with
    c_result,      \* the text returned to the caller
    c_error,       \* the exception the caller sees: "", "RetryError", ...
    \* column_main.main, one invocation of the command line
    i_config,      \* configs/config.yaml `regions`: region -> has information
    i_date,        \* --date: "none", "valid", "invalid"
    i_regions,     \* --regions, in the order given
    i_pc,          \* "validating", "pipeline", "exited"
    i_exit,        \* the process's exit code, -1 while it runs
    i_next,        \* position of run_pipeline's loop in i_regions
    i_runners,     \* regions NewsReportBaseRunner was called with, in order
    i_dirs,        \* regions whose output directory was made
    i_loaded,      \* regions whose articles were loaded
    i_written,     \* regions with a file written under their output directory
    i_results,     \* run_pipeline's `results`, as the loop filled it
    i_returned,    \* what runner.run() returned in each turn of the loop
    \* models: one object taken through to_dict and from_dict
    d_kind,        \* "Topic", "Report" or "NewsArticle"
    d_input,       \* the object, or for a NewsArticle the dictionary read
    d_pc,          \* "input", "built", "dumped", "rebuilt"
    d_obj,         \* the object
    d_dict,        \* d_obj.to_dict()
    d_back,        \* from_dict(d_dict)
    \* ReportValidator._count_words_multilingual, one call
    w_text,        \* the text, one character class per character
    w_pc,          \* "called", "returned"
    w_count        \* the count returned

genVars == <<g_prompt, g_pc, g_attempt, g_requests, g_result, g_log>>

adjVars == <<a_n, a_min, a_max, a_k, a_prev>>

modVars == <<m_batch, m_min, m_lda, m_pc, m_topics, m_assigned, m_error>>

selVars == <<s_topics, s_pc, s_response, s_parsed, s_selected>>

filVars == <<f_ids, f_published, f_relevance, f_article_ids, f_prompt, f_pc,
             f_calls, f_step1, f_response, f_path, f_result>>

exeVars == <<e_pc, e_news, e_topics, e_selector, e_selected, tasks,
             e_reports, e_saved, e_finished, e_topics_file>>

valVars == <<v_report, v_min, v_max, v_prompt, v_pc, v_calls, v_answer, v_valid>>

chatVars == <<c_too_large, c_pc, c_attempts, c_result, c_error>>

mainVars == <<i_config, i_date, i_regions, i_pc, i_exit, i_next, i_runners, i_dirs, i_loaded, i_written,
              i_results, i_returned>>

rtVars == <<d_kind, d_input, d_pc, d_obj, d_dict, d_back>>

wcVars == <<w_text, w_pc, w_count>>

vars == <<genVars, adjVars, modVars, selVars, filVars, exeVars, valVars, chatVars, mainVars, rtVars, wcVars>>

\* What each component leaves alone.
genOthers == <<adjVars, modVars, selVars, filVars, exeVars, valVars, chatVars, mainVars, rtVars, wcVars>>

adjOthers == <<genVars, modVars, selVars, filVars, exeVars, valVars, chatVars, mainVars, rtVars, wcVars>>

modOthers == <<genVars, adjVars, selVars, filVars, exeVars, valVars, chatVars, mainVars, rtVars, wcVars>>

selOthers == <<genVars, adjVars, modVars, filVars, exeVars, valVars, chatVars, mainVars, rtVars, wcVars>>

filOthers == <<genVars, adjVars, modVars, selVars, exeVars, valVars, chatVars, mainVars, rtVars, wcVars>>

exeOthers == <<genVars, adjVars, modVars, selVars, filVars, valVars, chatVars, mainVars, rtVars, wcVars>>

valOthers == <<genVars, adjVars, modVars, selVars, filVars, exeVars, chatVars, mainVars, rtVars, wcVars>>

chatOthers == <<genVars, adjVars, modVars, selVars, filVars, exeVars, valVars, mainVars, rtVars, wcVars>>

mainOthers == <<genVars, adjVars, modVars, selVars, filVars, exeVars, valVars, chatVars, rtVars, wcVars>>

rtOthers == <<genVars, adjVars, modVars, selVars, filVars, exeVars, valVars, chatVars, mainVars, wcVars>>

wcOthers == <<genVars, adjVars, modVars, selVars, filVars, exeVars, valVars, chatVars, mainVars, rtVars>>

----------------------------------------------------------------------------
(* Bounds and program constants *)

\* ContentAnalyzer: `for attempt in range(3)`
MaxAttempts == 3
\* word-count range requested by generate_report_content and process_topic
MinWords == 500
MaxWords == 2000

\* Word counts a generated body can have: below, at both ends of, and above
\* the range.
WordCounts == {0, MinWords - 1, MinWords, MaxWords, MaxWords + 1}

----------------------------------------------------------------------------
(* Report content: what extract_title_content returns *)

\* A body: `empty` is the Python falsiness of the string, `words` the result
\* of _count_words_multilingual on it, `tag` tells the generations apart.
EmptyContent == [empty |-> TRUE, words |-> 0, tag |-> 0]

Content(w, t) == [empty |-> FALSE, words |-> w, tag |-> t]

NoResult == [title |-> "", content |-> EmptyContent]

\* ReportValidator.validate_report_format: title and content present and
\* non-empty (extract_title_content always yields both keys).
ValidateReportFormat(rc) == rc.title # "" /\ ~rc.content.empty

\* ReportValidator.validate_word_count: min_words <= count <= max_words.
ValidateWordCount(content, min_words, max_words) ==
    ~(content.words < min_words) /\ ~(content.words > max_words)

----------------------------------------------------------------------------
(* TopicModeler._adjust_num_topics *)

\* Largest batch size and largest configured topic count considered.
MaxBatch == 1200
MaxTopicsCfg == 16

Min(x, y) == IF x <= y THEN x ELSE y

RECURSIVE Pow2(_)
Pow2(m) == IF m = 0 THEN 1 ELSE 2 * Pow2(m - 1)

\* int(math.log(article_count / 100, 2) * 3) for article_count > 500: the
\* largest m with 2^(m/3) <= n/100, that is 2^m * 100^3 <= n^3.
RECURSIVE LogGrowthFrom(_, _)
LogGrowthFrom(m, n) ==
    IF Pow2(m + 1) * 1000000 <= n * n * n THEN LogGrowthFrom(m + 1, n) ELSE m

LogGrowth(n) == LogGrowthFrom(0, n)

\* (the linear regime is not capped by max_topics)
AdjustNumTopicsUncapped(article_count, min_topics, max_topics) ==
    IF article_count <= 100 THEN min_topics
    ELSE IF article_count <= 500
         THEN min_topics + (article_count - 100) \div 50
         ELSE Min(max_topics, min_topics + LogGrowth(article_count))

AdjustNumTopics(article_count, min_topics, max_topics) ==
    IF article_count <= 100 THEN min_topics
    ELSE IF article_count <= 500
         THEN Min(max_topics, min_topics + (article_count - 100) \div 50)
         ELSE Min(max_topics, min_topics + LogGrowth(article_count))

AdjIdle ==
    /\ a_n = 0 /\ a_min = 1 /\ a_max = 1 /\ a_k = 0 /\ a_prev = 0

AdjInit ==
    /\ a_n = 0
    /\ a_min \in 1..MaxTopicsCfg
    /\ a_max \in a_min..MaxTopicsCfg
    /\ a_k = 0
    /\ a_prev = 0

\* The topic count of the empty batch.
AdjustFirst ==
    /\ a_k = 0
    /\ a_k' = AdjustNumTopics(a_n, a_min, a_max)
    /\ UNCHANGED <<a_n, a_min, a_max, a_prev>>
    /\ UNCHANGED adjOthers

\* The topic count of a batch one article larger than the last one.
AdjustLarger ==
    /\ a_k # 0
    /\ a_n < MaxBatch
    /\ a_n' = a_n + 1
    /\ a_prev' = a_k
    /\ a_k' = AdjustNumTopics(a_n + 1, a_min, a_max)
    /\ UNCHANGED <<a_min, a_max>>
    /\ UNCHANGED adjOthers

AdjNext == AdjustFirst \/ AdjustLarger

\* The growth regime of a batch size: n <= 100, 100 < n <= 500, n > 500.
Regime(n) == IF n <= 100 THEN 1 ELSE IF n <= 500 THEN 2 ELSE 3

\* C7: for min_k <= max_k and n >= 0 the topic count k satisfies
\* min_k <= k <= max_k, and k is non-decreasing in n within each regime.
C7_TopicCountBoundedMonotone ==
    a_k # 0 =>
      /\ a_min <= a_k /\ a_k <= a_max
      /\ (a_n >= 1 /\ Regime(a_n - 1) = Regime(a_n)) => a_prev <= a_k

\* The count grew inside the linear and inside the logarithmic regime, and
\* the cap max_k was reached.
C7_Witness ==
    /\ a_k # 0 /\ a_n >= 1
    /\ Regime(a_n - 1) = Regime(a_n)
    /\ a_prev < a_k
    /\ a_k = a_max
    /\ a_min < a_max

\* C29: for min_k <= max_k the topic count is non-decreasing in n over all
\* n >= 0, the regime boundaries 100 -> 101 and 500 -> 501 included: a batch
\* one article larger never gets fewer topics.
C29_TopicCountNonDecreasing ==
    (a_k # 0 /\ a_n >= 1) => a_prev <= a_k

\* At 501 articles the logarithmic regime gives fewer topics than the
\* linear regime gave at 500.
C29_Witness ==
    /\ a_k # 0
    /\ a_n = 501
    /\ a_prev = a_min + 8
    /\ a_k = a_min + 6
    /\ a_k < a_prev

----------------------------------------------------------------------------
(* TopicModeler.perform_topic_modeling *)

\* Largest batch of the filter and of the pipeline.
MaxArticles == 3

\* Largest batch considered by the modeling component.
MaxModeled == 2

\* Thresholds of the modeling stage, in percent.
MembershipThreshold == 30
WeightingThreshold == 10

\* Probabilities (%) the fitted model may give a document for a topic.
Probs == {9, 10, 29, 30}

\* min_topics values the topic_analysis configuration may hold.
ConfiguredMinTopics == {1, 2}
\* the default max_topics
DefaultMaxTopics == 20

\* Sources and the region's weighted-sources table (weights in percent).
Sources == {"wire", "blog"}

WeightedSources == [s \in {"wire"} |-> 150]

SourceWeight(source) ==
    IF source \in DOMAIN WeightedSources THEN WeightedSources[source] ELSE 100

\* The document of an article: its summary yields tokens ("text"), its
\* summary preprocesses to no token ("noise"), or it has no summary
\* ("nosummary").
DocKinds == {"text", "noise", "nosummary"}

\* An article of the batch; ids are unique, article i carries id i.
ArticlesOfLen(n, kinds, sources) ==
    {b \in [1..n -> [id : 1..n, doc : kinds, source : sources]] :
        \A i \in 1..n : b[i].id = i}

RECURSIVE SeqSum(_)
SeqSum(q) == IF q = <<>> THEN 0 ELSE Head(q) + SeqSum(Tail(q))

\* preprocess(doc) yields at least one token.
HasTokens(article) == article.doc = "text"

\* processed_docs after `[doc for doc in processed_docs if doc]`: the
\* positions (in news_list) of the articles whose document has tokens.
RECURSIVE ProcessedDocsFrom(_, _)
ProcessedDocsFrom(batch, i) ==
    IF i > Len(batch) THEN <<>>
    ELSE (IF HasTokens(batch[i]) THEN <<i>> ELSE <<>>)
         \o ProcessedDocsFrom(batch, i + 1)

ProcessedDocs(batch) == ProcessedDocsFrom(batch, 1)

\* The NewsArticle branch reads news.content when the summary is empty;
\* NewsArticle has no such attribute, so the access raises.
ModelingRaises(batch) == \E i \in 1..Len(batch) : batch[i].doc = "nosummary"

\* All outputs a fitted model can give for m documents and k topics.
LdaOutputs(m, k, probs) ==
    {l \in [1..m -> [0..(k - 1) -> probs]] :
        \A d \in 1..m : SeqSum([t \in 1..k |-> l[d][t - 1]]) <= 100}

\* article_ids[idx] for the idx-th document of the corpus (1-based here):
\* article_ids holds one id per article of news_list, the corpus one entry
\* per document that kept tokens.
ArticleIdOfDoc(batch, idx) == batch[idx].id

\* topic_articles of one topic: documents of the corpus with probability
\* >= 0.3 for it, each recorded under article_ids[idx].
RECURSIVE TopicArticlesFrom(_, _, _, _)
TopicArticlesFrom(batch, lda, t, idx) ==
    IF idx > Len(lda) THEN <<>>
    ELSE (IF lda[idx][t] >= MembershipThreshold
          THEN <<ArticleIdOfDoc(batch, idx)>> ELSE <<>>)
         \o TopicArticlesFrom(batch, lda, t, idx + 1)

TopicArticles(batch, lda, t) == TopicArticlesFrom(batch, lda, t, 1)

\* _update_topic_counts: every article whose document has tokens is
\* inferred on its own; topic_counter counts probabilities >= 0.1 and
\* weighted_topic_counter adds weight * prob.  rank is the position of the
\* article's document in the corpus.
TopicCounterMembersOnly(batch, lda, t) ==
    Cardinality({r \in 1..Len(lda) : lda[r][t] >= MembershipThreshold})

TopicCounter(batch, lda, t) ==
    Cardinality({r \in 1..Len(lda) : lda[r][t] >= WeightingThreshold})

WeightedTopicCounter(batch, lda, t) ==
    LET docs == ProcessedDocs(batch) IN
    SeqSum([r \in 1..Len(lda) |->
              IF lda[r][t] >= WeightingThreshold
              THEN SourceWeight(batch[docs[r]].source) * lda[r][t] ELSE 0])

\* round(x, 2) of a weighted count held in units of 1/10000.
Round2(x) == (x + 50) \div 100

TopicEntry(batch, lda, t) ==
    [topic_id |-> t,
     count |-> TopicCounter(batch, lda, t),
     weighted_count |-> Round2(WeightedTopicCounter(batch, lda, t)),
     article_ids |-> TopicArticles(batch, lda, t),
     selection_reason |-> ""]

\* sorted(topics, key=weighted_count, reverse=True): stable, descending.
RECURSIVE InsertByWeight(_, _)
InsertByWeight(sorted, topic) ==
    IF sorted = <<>> THEN <<topic>>
    ELSE IF Head(sorted).weighted_count >= topic.weighted_count
         THEN <<Head(sorted)>> \o InsertByWeight(Tail(sorted), topic)
         ELSE <<topic>> \o sorted

RECURSIVE SortByWeight(_)
SortByWeight(topics) ==
    IF topics = <<>> THEN <<>>
    ELSE InsertByWeight(SortByWeight(SubSeq(topics, 1, Len(topics) - 1)),
                        topics[Len(topics)])

\* article_topic_mapping[article_id]: one entry per topic under which the
\* id was recorded, in topic order.
RECURSIVE MappingFrom(_, _, _, _, _)
MappingFrom(batch, lda, k, id, t) ==
    IF t >= k THEN <<>>
    ELSE (IF \E idx \in 1..Len(lda) :
               /\ ArticleIdOfDoc(batch, idx) = id
               /\ lda[idx][t] >= MembershipThreshold
          THEN <<[topic_id |-> t,
                  probability |-> (CHOOSE p \in Probs : \E idx \in 1..Len(lda) :
                       /\ ArticleIdOfDoc(batch, idx) = id
                       /\ lda[idx][t] = p /\ p >= MembershipThreshold)]>>
          ELSE <<>>)
         \o MappingFrom(batch, lda, k, id, t + 1)

ArticleTopicMapping(batch, lda, k, id) == MappingFrom(batch, lda, k, id, 0)

\* The topic list of the whole call.
ModeledTopics(batch, lda, k) ==
    SortByWeight([j \in 1..k |-> TopicEntry(batch, lda, j - 1)])

ModIdle ==
    /\ m_batch = <<>> /\ m_min = 1 /\ m_lda = <<>>
    /\ m_pc = "idle" /\ m_topics = <<>> /\ m_assigned = <<>>
    /\ m_error = ""

ModInit ==
    /\ \E n \in 0..MaxModeled : m_batch \in ArticlesOfLen(n, DocKinds, Sources)
    /\ m_min \in ConfiguredMinTopics
    /\ m_lda = <<>>
    /\ m_pc = "start"
    /\ m_topics = <<>>
    /\ m_assigned = [i \in 1..Len(m_batch) |-> <<>>]
    /\ m_error = ""

\* The call ends without a model: building a document raised, no document
\* kept a token, or fitting the model raised.
ModelNothing ==
    /\ m_pc = "start"
    /\ \E fitRaises \in BOOLEAN :
         /\ ModelingRaises(m_batch) \/ ProcessedDocs(m_batch) = <<>> \/ fitRaises
         /\ m_error' = IF ModelingRaises(m_batch) THEN "AttributeError"
                        ELSE IF ProcessedDocs(m_batch) = <<>> THEN ""
                        ELSE "LdaError"
    /\ m_pc' = "done"
    /\ m_topics' = <<>>
    /\ UNCHANGED <<m_batch, m_min, m_lda, m_assigned>>
    /\ UNCHANGED modOthers

\* The call fits a model and derives topics and assignments from it.
ModelTopics ==
    /\ m_pc = "start"
    /\ ~ModelingRaises(m_batch)
    /\ ProcessedDocs(m_batch) # <<>>
    /\ LET k == AdjustNumTopics(Len(m_batch), m_min, DefaultMaxTopics) IN
       \E lda \in LdaOutputs(Len(ProcessedDocs(m_batch)), k, Probs) :
         /\ m_lda' = lda
         /\ m_topics' = ModeledTopics(m_batch, lda, k)
         /\ m_assigned' =
              [i \in 1..Len(m_batch) |->
                 LET mp == ArticleTopicMapping(m_batch, lda, k, m_batch[i].id) IN
                 IF mp # <<>> THEN mp ELSE m_assigned[i]]
    /\ m_pc' = "done"
    /\ UNCHANGED <<m_batch, m_min, m_error>>
    /\ UNCHANGED modOthers

ModNext == ModelNothing \/ ModelTopics

\* The position in the corpus of the document of article i.
RankOf(batch, i) == Cardinality({j \in 1..i : HasTokens(batch[j])})

\* The fitted model gives the own document of article i at least the
\* membership probability for topic t.
OwnDocumentIsMember(i, t) ==
    /\ HasTokens(m_batch[i])
    /\ m_lda[RankOf(m_batch, i)][t] >= 30

\* C6: after perform_topic_modeling, for every topic T and article A of the
\* batch, A's id is in T.article_ids and A.topics has an entry for T if and
\* only if the fitted model gives A's own document a probability >= 0.30
\* for T, also when some articles preprocess to an empty token set.
C6_MembershipIffOwnProbability ==
    m_pc = "done" =>
      \A j \in 1..Len(m_topics), i \in 1..Len(m_batch) :
        LET T == m_topics[j]
            member == \E x \in 1..Len(T.article_ids) :
                          T.article_ids[x] = m_batch[i].id
            entry == \E x \in 1..Len(m_assigned[i]) :
                          m_assigned[i][x].topic_id = T.topic_id
        IN /\ member <=> OwnDocumentIsMember(i, T.topic_id)
           /\ entry <=> OwnDocumentIsMember(i, T.topic_id)


\* C22: a batch holding an article without a summary is modelled like any
\* other: building its document raises nothing, and the topic list is
\* produced unless fitting the model fails.
C22_EmptySummaryStillModeled ==
    (m_pc = "done" /\ \E i \in 1..Len(m_batch) : m_batch[i].doc = "nosummary") =>
      /\ m_error # "AttributeError"
      /\ m_error = "" => m_topics # <<>>

\* A batch of one article with a summary and one without has been through
\* the call.
C22_Witness ==
    /\ m_pc = "done" /\ Len(m_batch) = 2
    /\ m_batch[1].doc = "text" /\ m_batch[2].doc = "nosummary"


\* The probability the fitted model gives the own document of article i for
\* topic t, and whether the article is counted for the topic.
OwnProbability(i, t) == m_lda[RankOf(m_batch, i)][t]

Contributes(i, t) ==
    HasTokens(m_batch[i]) /\ OwnProbability(i, t) >= 10

----------------------------------------------------------------------------
(* TopicSelector._parse_topic_selection and TopicAnalyzer.select_topics *)

\* Longest selector response considered, in lines.
MaxLines == 6
\* `selected_topics[:5]`
MaxSelected == 5

\* str(topic_id) for the topic ids in use.
RECURSIVE Str(_)
Str(n) ==
    LET digit == <<"0", "1", "2", "3", "4", "5", "6", "7", "8", "9">>[(n % 10) + 1]
    IN IF n < 10 THEN digit ELSE Str(n \div 10) \o digit

\* A line of the response.  A line starting with 'Topic ID:' is split at its
\* first comma: `id` is the text before it without the marker, `reason` the
\* text after it without 'Reason:' ("" when the line has no comma).
TopicLine(id, reason) == [kind |-> "topic", id |-> id, reason |-> reason]

OtherLine == [kind |-> "other", id |-> "", reason |-> ""]

\* Lines a response is made of: known ids with and without a reason, an id
\* that names no topic, and a line without the marker.
SelectorLines ==
    {TopicLine("0", "r1"), TopicLine("0", "r2"), TopicLine("1", ""),
     TopicLine("7", "r1"), OtherLine}

SeqsUpTo(S, n) == UNION {[1..m -> S] : m \in 0..n}

Take(q, n) == SubSeq(q, 1, Min(n, Len(q)))

\* next((topic for topic in topics_data if str(topic_id) == id), None): the
\* position of the first match, 0 for None.
FindTopicData(topics_data, id) ==
    IF \E j \in 1..Len(topics_data) : Str(topics_data[j].topic_id) = id
    THEN CHOOSE j \in 1..Len(topics_data) :
           /\ Str(topics_data[j].topic_id) = id
           /\ \A h \in 1..(j - 1) : Str(topics_data[h].topic_id) # id
    ELSE 0

\* The loop over the lines; `current` is <<>> for None, else <<dict>>.
RECURSIVE ParseLinesFrom(_, _, _, _, _)
ParseLinesFrom(lines, i, topics_data, selected, current) ==
    IF i > Len(lines) THEN selected \o current
    ELSE IF lines[i].kind # "topic"
         THEN ParseLinesFrom(lines, i + 1, topics_data, selected, current)
         ELSE LET j == FindTopicData(topics_data, lines[i].id) IN
              ParseLinesFrom(lines, i + 1, topics_data, selected \o current,
                  IF j # 0
                  THEN <<[topics_data[j] EXCEPT !.selection_reason = lines[i].reason]>>
                  ELSE current)

\* (no truncation to 5 topics)
ParseTopicSelectionAll(lines, topics_data) ==
    ParseLinesFrom(lines, 1, topics_data, <<>>, <<>>)

\* (the reason of a line is not attached)
ParseTopicSelectionNoReason(lines, topics_data) ==
    LET sel == Take(ParseLinesFrom(lines, 1, topics_data, <<>>, <<>>), MaxSelected)
    IN [p \in 1..Len(sel) |-> [sel[p] EXCEPT !.selection_reason = "unset"]]

ParseTopicSelection(lines, topics_data) ==
    Take(ParseLinesFrom(lines, 1, topics_data, <<>>, <<>>), MaxSelected)

\* TopicStats.get_topic_by_id: position of the first topic with the id.
GetTopicById(topics, topic_id) ==
    IF \E j \in 1..Len(topics) : topics[j].topic_id = topic_id
    THEN CHOOSE j \in 1..Len(topics) :
           /\ topics[j].topic_id = topic_id
           /\ \A h \in 1..(j - 1) : topics[h].topic_id # topic_id
    ELSE 0

\* TopicAnalyzer.select_topics, the conversion back to Topic objects: each
\* selected dictionary sets selection_reason on the original object and
\* appends that object.  Yields the objects after the loop and the list of
\* appended objects (by position).
RECURSIVE ResolveFrom(_, _, _, _)
ResolveFrom(dicts, p, topics, selected) ==
    IF p > Len(dicts) THEN [topics |-> topics, selected |-> selected]
    ELSE LET j == GetTopicById(topics, dicts[p].topic_id) IN
         ResolveFrom(dicts, p + 1,
             [topics EXCEPT ![j].selection_reason = dicts[p].selection_reason],
             Append(selected, j))

ResolveSelection(dicts, topics) == ResolveFrom(dicts, 1, topics, <<>>)

\* Topic lists a modeling run hands to the selector.
InputTopic(id, w, ids) ==
    [topic_id |-> id, count |-> Len(ids), weighted_count |-> w,
     article_ids |-> ids, selection_reason |-> ""]

SelectorInputs ==
    {<<InputTopic(0, 100, <<1>>)>>,
     <<InputTopic(0, 200, <<1, 2>>), InputTopic(1, 100, <<2>>)>>,
     <<InputTopic(1, 200, <<1>>), InputTopic(0, 100, <<>>)>>}

SelIdle ==
    /\ s_topics = <<>> /\ s_pc = "idle" /\ s_response = <<>>
    /\ s_parsed = <<>> /\ s_selected = <<>>

SelInit ==
    /\ s_topics \in SelectorInputs
    /\ s_pc = "start"
    /\ s_response = <<>>
    /\ s_parsed = <<>>
    /\ s_selected = <<>>

\* The prompt cannot be built or the backend call raises: the handler of
\* TopicAnalyzer.select_topics returns the empty list.
SelectFails ==
    /\ s_pc = "start"
    /\ s_pc' = "done"
    /\ s_selected' = <<>>
    /\ UNCHANGED <<s_topics, s_response, s_parsed>>
    /\ UNCHANGED selOthers

\* The backend answers; the answer is parsed and resolved.
SelectAnswers ==
    /\ s_pc = "start"
    /\ \E lines \in SeqsUpTo(SelectorLines, MaxLines) :
         LET dicts == ParseTopicSelection(lines, s_topics)
             res == ResolveSelection(dicts, s_topics)
         IN /\ s_response' = lines
            /\ s_parsed' = dicts
            /\ s_topics' = res.topics
            /\ s_selected' = res.selected
    /\ s_pc' = "done"
    /\ UNCHANGED selOthers

SelNext == SelectFails \/ SelectAnswers

NamedIds ==
    [x \in 1..Len(s_response) |->
        IF s_response[x].kind = "topic" THEN s_response[x].id ELSE ""]

SelectorKnownIds == {Str(s_topics[j].topic_id) : j \in 1..Len(s_topics)}

\* The lines of the response that name a known id.
KnownIdLines == {x \in 1..Len(s_response) : NamedIds[x] \in SelectorKnownIds}

\* C26: a 'Topic ID:' line naming an id that is not in the topic set leaves
\* the selection unchanged: the parsed selection holds one entry per line
\* naming a known id, in response order (the first 5 of them), and has no
\* duplicate topic when every known id is named at most once.
C26_UnknownIdLineSkipped ==
    s_pc = "done" =>
      /\ Len(s_parsed) = Min(Cardinality(KnownIdLines), MaxSelected)
      /\ \A p \in 1..Len(s_parsed) :
            \E x \in KnownIdLines :
               /\ Cardinality({y \in KnownIdLines : y <= x}) = p
               /\ Str(s_parsed[p].topic_id) = NamedIds[x]
      /\ (\A x, y \in 1..Len(s_response) :
              (x # y /\ NamedIds[x] \in SelectorKnownIds) => NamedIds[x] # NamedIds[y])
            => \A p, q \in 1..Len(s_parsed) :
                  p # q => s_parsed[p].topic_id # s_parsed[q].topic_id

\* A response naming a known id once and then an unknown id was parsed.
C26_Witness ==
    /\ s_pc = "done"
    /\ Len(s_response) = 2
    /\ NamedIds[1] \in SelectorKnownIds
    /\ s_response[2].kind = "topic" /\ NamedIds[2] \notin SelectorKnownIds
    /\ Len(s_parsed) = 2

----------------------------------------------------------------------------
(* NewsFilterAnalyzer.filter_related_news and _parse_news_filtering *)

\* Longest filter response considered, in lines.
MaxRespLines == 2
\* `topic_related_news[:10]`
FallbackLimit == 10

\* Elements of q that are in S, in the order of q.
RECURSIVE Restrict(_, _)
Restrict(q, S) ==
    IF q = <<>> THEN <<>>
    ELSE (IF Head(q) \in S THEN <<Head(q)>> ELSE <<>>) \o Restrict(Tail(q), S)

Range(q) == {q[i] : i \in 1..Len(q)}

\* Step 1: the articles of news_list whose str(id) is in article_ids, in
\* the order of news_list.
TopicRelatedNews(ids, article_ids) == Restrict(ids, Range(article_ids))

\* A line of the filter response, by what the line scan and the three
\* regular expressions see in it:
\*   "article"       Article ID: <id>
\*   "articledot"    Article ID: <id>.     (the token "<id>." is no id)
\*   "idnum"         ID: <id>
\*   "hash"          #<id>
\*   "numbered"      <id>. some title
\*   "hashnumbered"  <id>. #<id>           (matches two patterns)
\*   "other"         none of the markers
FilterLine(kind, id) == [kind |-> kind, id |-> id]

\* The text strategy (a) reads after 'Article ID:' in a line, "" when the
\* line has no marker.
ArticleIdToken(line) ==
    IF line.kind = "article" THEN line.id
    ELSE IF line.kind = "articledot" THEN "dotted"
    ELSE ""

HasArticleMarker(line) == line.kind \in {"article", "articledot"}

\* re.findall of the three patterns on one line, pattern by pattern.
RegexMatches(line) ==
    (IF line.kind \in {"article", "articledot", "idnum"} THEN <<line.id>> ELSE <<>>)
    \o (IF line.kind \in {"hash", "hashnumbered"} THEN <<line.id>> ELSE <<>>)
    \o (IF line.kind \in {"numbered", "hashnumbered"} THEN <<line.id>> ELSE <<>>)

\* The embedded JSON object: absent, not parsable, or an object holding a
\* list of ids under one key.
NoJson == [kind |-> "none", key |-> "", items |-> <<>>]

BadJson == [kind |-> "invalid", key |-> "", items |-> <<>>]

JsonObject(key, items) == [kind |-> "object", key |-> key, items |-> items]

PossibleKeys ==
    {"selected_articles", "filtered_news", "relevant_articles", "articles", "ids"}

\* id_mapping: str(_id) of every article sent to the backend.
IdMapping(news_ids) == {Str(id) : id \in Range(news_ids)}

\* Strategy (a): 'Article ID:' lines whose token is a known id.
RECURSIVE ScanArticleLines(_, _)
ScanArticleLines(lines, known) ==
    IF lines = <<>> THEN <<>>
    ELSE (IF HasArticleMarker(Head(lines)) /\ ArticleIdToken(Head(lines)) \in known
          THEN <<ArticleIdToken(Head(lines))>> ELSE <<>>)
         \o ScanArticleLines(Tail(lines), known)

\* Strategy (b): the items of the list under a known key that are known ids.
ScanJson(json, known) ==
    IF json.kind = "object" /\ json.key \in PossibleKeys
    THEN Restrict(json.items, known) ELSE <<>>

\* Strategy (c): the regular expressions, line by line.
RECURSIVE ScanNumeric(_, _)
ScanNumeric(lines, known) ==
    IF lines = <<>> THEN <<>>
    ELSE Restrict(RegexMatches(Head(lines)), known)
         \o ScanNumeric(Tail(lines), known)

\* (nothing found yields nothing)
ParseNewsFilteringNoFallback(resp, news_ids) ==
    LET known == IdMapping(news_ids)
        a == ScanArticleLines(resp.lines, known)
        b == IF a = <<>> THEN ScanJson(resp.json, known) ELSE a
    IN IF b = <<>> THEN ScanNumeric(resp.lines, known) ELSE b

\* (the embedded JSON object is read before the 'Article ID:' lines)
ParseNewsFilteringJsonFirst(resp, news_ids) ==
    LET known == IdMapping(news_ids)
        b == ScanJson(resp.json, known)
        a == IF b = <<>> THEN ScanArticleLines(resp.lines, known) ELSE b
        c == IF a = <<>> THEN ScanNumeric(resp.lines, known) ELSE a
    IN IF c = <<>> THEN [i \in 1..Len(news_ids) |-> Str(news_ids[i])] ELSE c

\* _parse_news_filtering: the cascade; all ids when nothing is found.
ParseNewsFiltering(resp, news_ids) ==
    LET known == IdMapping(news_ids)
        a == ScanArticleLines(resp.lines, known)
        b == IF a = <<>> THEN ScanJson(resp.json, known) ELSE a
        c == IF b = <<>> THEN ScanNumeric(resp.lines, known) ELSE b
    IN IF c = <<>> THEN [i \in 1..Len(news_ids) |-> Str(news_ids[i])] ELSE c

\* final_news: the step-1 article of every parsed id, in parsed order.
RECURSIVE FinalNews(_, _)
FinalNews(filtered_ids, step1) ==
    IF filtered_ids = <<>> THEN <<>>
    ELSE (IF \E a \in Range(step1) : Str(a) = Head(filtered_ids)
          THEN <<CHOOSE a \in Range(step1) : Str(a) = Head(filtered_ids)>>
          ELSE <<>>)
         \o FinalNews(Tail(filtered_ids), step1)

\* Responses of the backend to a filtering request.
FilterLines ==
    {FilterLine("article", "1"), FilterLine("article", "2"),
     FilterLine("article", "9"), FilterLine("articledot", "2"),
     FilterLine("hash", "1"), FilterLine("hashnumbered", "1"),
     FilterLine("other", "")}

FilterJsons == {NoJson, BadJson, JsonObject("ids", <<"2", "9">>)}

FilterResponses ==
    {[lines |-> l, json |-> j] : l \in SeqsUpTo(FilterLines, MaxRespLines),
                                 j \in FilterJsons}

NoResponse == [lines |-> <<>>, json |-> NoJson]

\* Increasing sequences of ids from 1..n: the article_ids of a modeled topic.
RECURSIVE SetToSeq(_)
SetToSeq(S) ==
    IF S = {} THEN <<>>
    ELSE LET x == CHOOSE y \in S : \A z \in S : y <= z
         IN <<x>> \o SetToSeq(S \ {x})

FilIdle ==
    /\ f_ids = <<>> /\ f_published = <<>> /\ f_relevance = <<>>
    /\ f_article_ids = <<>> /\ f_prompt = TRUE
    /\ f_pc = "idle" /\ f_calls = 0 /\ f_step1 = <<>>
    /\ f_response = NoResponse /\ f_path = "" /\ f_result = <<>>

\* Batches of up to MaxArticles articles, and one batch larger than the
\* fallback limit; the articles are in published order or in the reverse
\* of it, and carry no topic entry or entries of growing probability.
FilInit ==
    /\ \E n \in (1..MaxArticles) \cup {FallbackLimit + 1} :
         /\ f_ids = [i \in 1..n |-> i]
         /\ f_published \in {[i \in 1..n |-> i], [i \in 1..n |-> n + 1 - i]}
         /\ f_relevance \in {[i \in 1..n |-> 0],
                              [i \in 1..n |-> MembershipThreshold + i]}
         /\ \E S \in (SUBSET (1..MaxArticles)) \cup {1..n} :
              f_article_ids = SetToSeq(S)
    /\ f_prompt \in BOOLEAN
    /\ f_pc = "start"
    /\ f_calls = 0
    /\ f_step1 = <<>>
    /\ f_response = NoResponse
    /\ f_path = ""
    /\ f_result = <<>>

\* (the backend is consulted although step 1 found nothing)
FilterReturnsEarlyNever(step1) == FALSE

\* `if not topic_related_news: return []`
FilterReturnsEarly(step1) == step1 = <<>>

\* Step 1 finds no article: the empty list is returned at once.
FilterEmpty ==
    /\ f_pc = "start"
    /\ FilterReturnsEarly(TopicRelatedNews(f_ids, f_article_ids))
    /\ f_step1' = TopicRelatedNews(f_ids, f_article_ids)
    /\ f_result' = <<>>
    /\ f_path' = "empty"
    /\ f_pc' = "returned"
    /\ UNCHANGED <<f_ids, f_published, f_relevance, f_article_ids, f_prompt, f_calls, f_response>>
    /\ UNCHANGED filOthers

\* Building a prompt raises: the handler returns the first 10 step-1
\* articles; the backend was not called.
FilterPromptFails ==
    /\ f_pc = "start"
    /\ ~FilterReturnsEarly(TopicRelatedNews(f_ids, f_article_ids))
    /\ ~f_prompt
    /\ f_step1' = TopicRelatedNews(f_ids, f_article_ids)
    /\ f_result' = Take(TopicRelatedNews(f_ids, f_article_ids), FallbackLimit)
    /\ f_path' = "fallback"
    /\ f_pc' = "returned"
    /\ UNCHANGED <<f_ids, f_published, f_relevance, f_article_ids, f_prompt, f_calls, f_response>>
    /\ UNCHANGED filOthers

\* The backend call raises: the handler returns the first 10 step-1 articles.
FilterBackendFails ==
    /\ f_pc = "start"
    /\ ~FilterReturnsEarly(TopicRelatedNews(f_ids, f_article_ids))
    /\ f_prompt
    /\ f_calls' = f_calls + 1
    /\ f_step1' = TopicRelatedNews(f_ids, f_article_ids)
    /\ f_result' = Take(TopicRelatedNews(f_ids, f_article_ids), FallbackLimit)
    /\ f_path' = "fallback"
    /\ f_pc' = "returned"
    /\ UNCHANGED <<f_ids, f_published, f_relevance, f_article_ids, f_prompt, f_response>>
    /\ UNCHANGED filOthers

\* The backend answers: the answer is parsed and mapped to step-1 articles.
FilterAnswers ==
    /\ f_pc = "start"
    /\ ~FilterReturnsEarly(TopicRelatedNews(f_ids, f_article_ids))
    /\ f_prompt
    /\ \E resp \in FilterResponses :
         LET step1 == TopicRelatedNews(f_ids, f_article_ids) IN
         /\ f_response' = resp
         /\ f_step1' = step1
         /\ f_result' = FinalNews(ParseNewsFiltering(resp, step1), step1)
    /\ f_calls' = f_calls + 1
    /\ f_path' = "parsed"
    /\ f_pc' = "returned"
    /\ UNCHANGED <<f_ids, f_published, f_relevance, f_article_ids, f_prompt>>
    /\ UNCHANGED filOthers

FilNext == FilterEmpty \/ FilterPromptFails \/ FilterBackendFails \/ FilterAnswers

\* C10 as claimed: step 1 intersects the batch with the topic's article_ids
\* by id; when it is empty the call returns the empty list without a backend
\* call, and otherwise the backend is called exactly once.
C10_NoCallWhenEmptyElseExactlyOnce ==
    f_pc = "returned" =>
      /\ Range(f_step1) = Range(f_ids) \cap Range(f_article_ids)
      /\ f_step1 = <<>> => (f_result = <<>> /\ f_calls = 0)
      /\ f_step1 # <<>> => f_calls = 1

\* C10 amended: when step 1 is empty the call returns the empty list without
\* a backend call; otherwise the backend is called at most once, and exactly
\* once when the filtering prompts can be built.
C10_NoCallWhenEmptyElseAtMostOnce ==
    f_pc = "returned" =>
      /\ Range(f_step1) = Range(f_ids) \cap Range(f_article_ids)
      /\ f_step1 = <<>> => (f_result = <<>> /\ f_calls = 0 /\ f_path = "empty")
      /\ f_step1 # <<>> => (f_calls <= 1 /\ f_path # "empty")
      /\ (f_step1 # <<>> /\ f_prompt) => f_calls = 1
      /\ (f_step1 # <<>> /\ ~f_prompt) => f_calls = 0

\* A topic whose article_ids name no article of a non-empty batch, with
\* working prompts: the call returned at once.
C10_Witness ==
    /\ f_pc = "returned"
    /\ f_article_ids # <<>>
    /\ f_prompt
    /\ f_step1 = <<>>
    /\ f_calls = 0

\* The response has no marker of any strategy: no 'Article ID:' line, no
\* JSON object, no line a regular expression matches.
NoMarker(resp) ==
    /\ resp.json.kind = "none"
    /\ \A x \in 1..Len(resp.lines) : resp.lines[x].kind = "other"

\* No strategy yields an id of the step-1 set.
NothingKnown(resp, step1) ==
    /\ ScanArticleLines(resp.lines, IdMapping(step1)) = <<>>
    /\ ScanJson(resp.json, IdMapping(step1)) = <<>>
    /\ ScanNumeric(resp.lines, IdMapping(step1)) = <<>>

\* C11: when the response has no recognizable marker, or no strategy yields
\* a known id, the cascade returns exactly the step-1 ids (so the call
\* returns exactly the step-1 articles), and filter_related_news never
\* returns an empty list after a non-empty step 1.
C11_NothingParsedKeepsStepOne ==
    f_pc = "returned" =>
      /\ (f_path = "parsed" /\ (NoMarker(f_response) \/ NothingKnown(f_response, f_step1))) =>
            /\ ParseNewsFiltering(f_response, f_step1)
                  = [x \in 1..Len(f_step1) |-> Str(f_step1[x])]
            /\ f_result = f_step1
      /\ f_step1 # <<>> => f_result # <<>>

\* A response of ordinary lines only was given for two step-1 articles, and
\* both came back.
C11_Witness ==
    /\ f_pc = "returned"
    /\ f_path = "parsed"
    /\ f_response.lines # <<>>
    /\ NoMarker(f_response)
    /\ Len(f_step1) >= 2
    /\ f_result = f_step1

\* Some step-1 article has a topic entry to rank by.
RelevanceAvailable == \E a \in Range(f_step1) : f_relevance[a] > 0

\* Article a is to be kept before article b: by relevance when there is
\* one, by recency otherwise.
PreferredTo(a, b) ==
    IF RelevanceAvailable THEN f_relevance[a] >= f_relevance[b]
    ELSE f_published[a] >= f_published[b]

\* C12: when the refinement fails after a non-empty step 1, the call
\* returns at most 10 articles, all of the step-1 set, and they are the
\* most relevant ones by the articles' topic entries, or else the most
\* recent ones: no step-1 article left out is preferable to one returned.
C12_FallbackKeepsTenBest ==
    (f_pc = "returned" /\ f_path = "fallback") =>
      /\ Len(f_result) <= FallbackLimit
      /\ f_result # <<>>
      /\ Range(f_result) \subseteq Range(f_step1)
      /\ \A a \in Range(f_result), b \in Range(f_step1) \ Range(f_result) :
           PreferredTo(a, b)

\* The refinement failed for more than 10 step-1 articles and 10 came back.
C12_Witness ==
    /\ f_pc = "returned"
    /\ f_path = "fallback"
    /\ Len(f_step1) > FallbackLimit
    /\ Len(f_result) = FallbackLimit


\* The normalized ids of the step-1 articles, and what each strategy can
\* find in the response: the lines 'Article ID: <known id>', the known
\* items of the list in the JSON object, the known numbers the patterns
\* match.
KnownIds == {Str(a) : a \in Range(f_step1)}

ArticleLinePositions ==
    {x \in 1..Len(f_response.lines) :
        f_response.lines[x].kind = "article" /\ f_response.lines[x].id \in KnownIds}

JsonItemPositions ==
    IF f_response.json.kind = "object" /\ f_response.json.key \in PossibleKeys
    THEN {x \in 1..Len(f_response.json.items) : f_response.json.items[x] \in KnownIds}
    ELSE {}

NumericIds ==
    {f_response.lines[x].id : x \in {y \in 1..Len(f_response.lines) :
        /\ f_response.lines[y].kind \notin {"other"}
        /\ f_response.lines[y].id \in KnownIds}}

\* C24: the parse takes the ids of the 'Article ID:' lines when one of them
\* names a known id, otherwise those of the JSON object when it holds a
\* known id, otherwise those the numeric patterns find; it never mixes two
\* strategies, and every id returned is the id of a step-1 article.
C24_FirstYieldingStrategyOnly ==
    (f_pc = "returned" /\ f_path = "parsed") =>
      LET parsed == ParseNewsFiltering(f_response, f_step1) IN
      /\ ArticleLinePositions # {} =>
            /\ Len(parsed) = Cardinality(ArticleLinePositions)
            /\ Range(parsed) = {f_response.lines[x].id : x \in ArticleLinePositions}
      /\ (ArticleLinePositions = {} /\ JsonItemPositions # {}) =>
            /\ Len(parsed) = Cardinality(JsonItemPositions)
            /\ Range(parsed) = {f_response.json.items[x] : x \in JsonItemPositions}
      /\ (ArticleLinePositions = {} /\ JsonItemPositions = {} /\ NumericIds # {}) =>
            Range(parsed) = NumericIds
      /\ Range(parsed) \subseteq KnownIds
      /\ Range(f_result) = {a \in Range(f_step1) : Str(a) \in Range(parsed)}

\* The 'Article ID:' lines name no known id, the JSON object and the
\* numeric patterns name different known ids, and the JSON ids were
\* returned.
C24_Witness ==
    /\ f_pc = "returned" /\ f_path = "parsed"
    /\ \E x \in 1..Len(f_response.lines) :
         f_response.lines[x].kind \in {"article", "articledot"}
    /\ ArticleLinePositions = {}
    /\ JsonItemPositions # {}
    /\ NumericIds # {}
    /\ NumericIds # {f_response.json.items[x] : x \in JsonItemPositions}
    /\ f_result = <<2>>


\* C27: filter_related_news returns no article twice, whatever the
\* response repeats, so the number of returned articles (the count
\* process_topic takes from it) is the number of distinct articles cited.
C27_NoArticleReturnedTwice ==
    f_pc = "returned" =>
      /\ \A x, y \in 1..Len(f_result) : x # y => f_result[x] # f_result[y]
      /\ Len(f_result) = Cardinality(Range(f_result))

\* A response naming one known id in two 'Article ID:' lines, or in one
\* line that two numeric patterns match, was parsed.
C27_Witness ==
    /\ f_pc = "returned" /\ f_path = "parsed"
    /\ \/ /\ Len(f_response.lines) = 2
          /\ f_response.lines[1] = FilterLine("article", "1")
          /\ f_response.lines[2] = FilterLine("article", "1")
       \/ /\ f_response.lines = <<FilterLine("hashnumbered", "1")>>
          /\ f_response.json = NoJson
    /\ 1 \in Range(f_step1)
    /\ Len(f_result) = 2

----------------------------------------------------------------------------
(* ContentAnalyzer.generate_report_content *)

\* What one attempt obtains: the chat call (or the processing of its
\* response) raises, or extract_title_content yields a title and a body.
GenError == [kind |-> "error", result |-> NoResult]

GenResponse(title, content) ==
    [kind |-> "resp", result |-> [title |-> title, content |-> content]]

GenOutcomes(t) ==
    {GenError}
    \cup {GenResponse(title, EmptyContent) : title \in {"", "T"}}
    \cup {GenResponse(title, Content(w, t)) : title \in {"", "T"}, w \in WordCounts}

\* (the last attempt does not tolerate an out-of-range word count)
GenDecisionNoTolerance(attempt, out) ==
    IF out.kind = "error"
    THEN IF attempt = MaxAttempts - 1 THEN "raise" ELSE "continue"
    ELSE IF ~ValidateReportFormat(out.result) THEN "continue"
    ELSE IF ~ValidateWordCount(out.result.content, MinWords, MaxWords)
         THEN "continue"
         ELSE "return"

\* (the error of any attempt is raised at once)
GenDecisionRaiseAtOnce(attempt, out) ==
    IF out.kind = "error"
    THEN "raise"
    ELSE IF ~ValidateReportFormat(out.result) THEN "continue"
    ELSE IF ~ValidateWordCount(out.result.content, MinWords, MaxWords)
         THEN IF attempt = MaxAttempts - 1 THEN "return" ELSE "continue"
         ELSE "return"

\* (a response is returned without the format check)
GenDecisionUnchecked(attempt, out) ==
    IF out.kind = "error"
    THEN IF attempt = MaxAttempts - 1 THEN "raise" ELSE "continue"
    ELSE IF ~ValidateWordCount(out.result.content, MinWords, MaxWords)
         THEN IF attempt = MaxAttempts - 1 THEN "return" ELSE "continue"
         ELSE "return"

\* One iteration of the retry loop with loop variable `attempt` (0-based):
\* what the iteration does with the outcome `out`.
GenDecision(attempt, out) ==
    IF out.kind = "error"
    THEN IF attempt = MaxAttempts - 1 THEN "raise" ELSE "continue"
    ELSE IF ~ValidateReportFormat(out.result) THEN "continue"
    ELSE IF ~ValidateWordCount(out.result.content, MinWords, MaxWords)
         THEN IF attempt = MaxAttempts - 1 THEN "return" ELSE "continue"
         ELSE "return"

\* Building the summaries and the prompts precedes the loop; an exception
\* there leaves the function at once through the outer handler.
GenStart ==
    /\ g_pc = "start"
    /\ g_pc' = IF g_prompt THEN "loop" ELSE "raised"
    /\ UNCHANGED <<g_prompt, g_attempt, g_requests, g_result, g_log>>
    /\ UNCHANGED genOthers

\* One loop iteration: the chat call, extraction and the two validations.
\* Falling out of the loop raises "Failed to generate valid report".
GenAttempt ==
    /\ g_pc = "loop"
    /\ \E out \in GenOutcomes(g_attempt + 1) :
         LET d == GenDecision(g_attempt, out) IN
         /\ g_requests' = g_requests + 1
         /\ g_log' = Append(g_log, out)
         /\ g_attempt' = g_attempt + 1
         /\ g_result' = IF d = "return" THEN out.result ELSE g_result
         /\ g_pc' = CASE d = "return" -> "returned"
                      [] d = "raise" -> "raised"
                      [] OTHER -> IF g_attempt + 1 < MaxAttempts
                                  THEN "loop" ELSE "raised"
    /\ UNCHANGED g_prompt
    /\ UNCHANGED genOthers

\* No invocation in progress.
GenIdle ==
    /\ g_prompt = TRUE
    /\ g_pc = "idle"
    /\ g_attempt = 0
    /\ g_requests = 0
    /\ g_result = NoResult
    /\ g_log = <<>>

GenInit ==
    /\ g_prompt \in BOOLEAN
    /\ g_pc = "start"
    /\ g_attempt = 0
    /\ g_requests = 0
    /\ g_result = NoResult
    /\ g_log = <<>>

GenNext == GenStart \/ GenAttempt

\* The attempt passed structural validation.
GenStructOK(out) == out.kind = "resp" /\ ValidateReportFormat(out.result)

\* The attempt passed structural validation and the range [500, 2000].
GenPass(out) ==
    /\ GenStructOK(out)
    /\ out.result.content.words >= 500
    /\ out.result.content.words <= 2000

\* C4: generate_report_content makes at most 3 backend requests; it returns
\* the content of the first attempt that passes structural validation and
\* the word-count range, and on the 3rd attempt structurally valid content
\* is returned even when its word count is out of range.
C4_AtMostThreeFirstPassing ==
    /\ g_requests <= 3
    /\ g_requests = Len(g_log)
    /\ \A j \in 1..Len(g_log) :
         GenPass(g_log[j]) => (g_pc = "returned" /\ j = Len(g_log))
    /\ (Len(g_log) = 3 /\ GenStructOK(g_log[3])) => g_pc = "returned"
    /\ g_pc = "returned" =>
         /\ Len(g_log) >= 1
         /\ g_result = g_log[Len(g_log)].result
         /\ GenStructOK(g_log[Len(g_log)])
         /\ (GenPass(g_log[Len(g_log)]) \/ Len(g_log) = 3)

\* Structural failure on attempts 1 and 2, then a structurally valid 3rd
\* attempt with an out-of-range word count, whose content is returned.
C4_Witness ==
    /\ g_pc = "returned"
    /\ Len(g_log) = 3
    /\ ~GenStructOK(g_log[1]) /\ g_log[1].kind = "resp"
    /\ ~GenStructOK(g_log[2]) /\ g_log[2].kind = "resp"
    /\ ~GenPass(g_log[3])
    /\ g_result.content.tag = 3

\* C5 as claimed: the function returns a non-empty title and body or
\* raises, and it raises only after all 3 attempts were made.
C5_RaisesOnlyAfterThreeAttempts ==
    /\ g_pc = "returned" => (g_result.title # "" /\ ~g_result.content.empty)
    /\ g_pc = "raised" => g_requests = 3

\* C5 amended: the function returns a non-empty title and body or raises;
\* once the prompts are built it raises only after all 3 attempts were made
\* (an error on attempt 1 or 2 is absorbed and the next attempt is made, an
\* error on the 3rd attempt propagates, a structurally invalid 3rd attempt
\* ends in an error); it raises before any attempt when the prompts cannot
\* be built.
C5_ReturnsContentOrRaises ==
    /\ g_pc = "returned" => (g_result.title # "" /\ ~g_result.content.empty)
    /\ (g_pc = "raised" /\ g_prompt) => (g_requests = 3 /\ Len(g_log) = 3)
    /\ (g_pc = "raised" /\ ~g_prompt) => g_requests = 0
    /\ \A j \in 1..Len(g_log) :
         (j < 3 /\ ~GenPass(g_log[j])) => (Len(g_log) > j \/ g_pc = "loop")
    /\ (Len(g_log) = 3 /\ g_log[3].kind = "error") => g_pc = "raised"
    /\ (Len(g_log) = 3 /\ ~GenStructOK(g_log[3])) => g_pc = "raised"

\* Errors on attempts 1 and 2 were absorbed and the error of the 3rd
\* attempt reached the caller.
C5_Witness ==
    /\ g_pc = "raised"
    /\ Len(g_log) = 3
    /\ \A j \in 1..3 : g_log[j].kind = "error"

----------------------------------------------------------------------------
(* BaseReportGenerator.execute and process_topic, ReportValidator.validate_content *)

\* `while not content_valid and retry_count < 3`
MaxRetries == 3
\* words of the placeholder body before the topic's keywords
PlaceholderWords == 19

\* One call of generate_report_content on the outcomes its attempts obtain.
RECURSIVE GenRunFrom(_, _)
GenRunFrom(outs, attempt) ==
    IF attempt >= MaxAttempts THEN [kind |-> "raise", result |-> NoResult]
    ELSE LET d == GenDecision(attempt, outs[attempt + 1]) IN
         IF d = "return" THEN [kind |-> "return", result |-> outs[attempt + 1].result]
         ELSE IF d = "raise" THEN [kind |-> "raise", result |-> NoResult]
         ELSE GenRunFrom(outs, attempt + 1)

GenRun(outs) == GenRunFrom(outs, 0)

\* The backend requests one call of generate_report_content makes on the
\* outcomes its attempts obtain.
RECURSIVE GenRequestsFrom(_, _)
GenRequestsFrom(outs, attempt) ==
    IF attempt >= MaxAttempts THEN attempt
    ELSE IF GenDecision(attempt, outs[attempt + 1]) \in {"return", "raise"}
    THEN attempt + 1
    ELSE GenRequestsFrom(outs, attempt + 1)

GenRequests(outs) == GenRequestsFrom(outs, 0)

\* The loop test of process_topic with one iteration too many.
RetryAgainOnceMore(content_valid, retry_count) ==
    ~content_valid /\ retry_count < MaxRetries + 1

\* `while not content_valid and retry_count < 3`
RetryAgain(content_valid, retry_count) ==
    ~content_valid /\ retry_count < MaxRetries

\* What the three attempts of the c-th call of a task may obtain: a good
\* report at once; three short reports; three backend errors; an error,
\* a report without title, then a good report.
SynthesisScripts(c) ==
    LET good == GenResponse("T", Content(MinWords, c))
        short == GenResponse("T", Content(MinWords - 1, c))
        untitled == GenResponse("", Content(MinWords, c))
    IN {<<good, good, good>>, <<short, short, short>>,
        <<GenError, GenError, GenError>>, <<GenError, untitled, good>>}

\* The fallback of process_topic for an empty generation result.
Placeholder == [title |-> "Topic", content |-> Content(PlaceholderWords, 0)]

\* `if not report_content or not report_content.get('content')`
OrPlaceholder(report_content) ==
    IF report_content.content.empty THEN Placeholder ELSE report_content

\* What the validation backend answers: 'pass' true, 'pass' false, or no
\* usable answer (the call raises or the answer is not JSON).
Verdicts == {"pass", "fail", "unusable"}

\* (an answer that is not usable rejects the content)
ValidateContentStrict(report_content, min_words, max_words, verdict) ==
    IF ~ValidateReportFormat(report_content) THEN FALSE
    ELSE IF ~ValidateWordCount(report_content.content, min_words, max_words)
    THEN FALSE
    ELSE verdict = "pass"

\* ReportValidator.validate_content: the first component of its result.
ValidateContent(report_content, min_words, max_words, verdict) ==
    IF ~ValidateReportFormat(report_content) THEN FALSE
    ELSE IF ~ValidateWordCount(report_content.content, min_words, max_words)
    THEN FALSE
    ELSE verdict # "fail"

\* A batch article.
Article(id, doc, source) == [id |-> id, doc |-> doc, source |-> source]

\* What _load_news_data may return: nothing; one article whose summary
\* preprocesses to no token; two ordinary articles.
PipelineBatches ==
    {<<>>,
     <<Article(1, "noise", "wire")>>,
     <<Article(1, "text", "wire"), Article(2, "text", "blog")>>}

\* min_topics of the run's configuration.
PipelineMinTopics == 2

\* Fitted models of a run: the first document belongs to topic 0 only.
PipelineLda(m, k) ==
    IF m = 0 THEN {<<>>}
    ELSE {l \in LdaOutputs(m, k, {9, 30}) :
            \A t \in 0..(k - 1) : l[1][t] = IF t = 0 THEN 30 ELSE 9}

\* Selector responses of a run.
PipelineSelections ==
    {<<>>, <<OtherLine>>, <<TopicLine("0", "r1")>>,
     <<TopicLine("0", "r1"), TopicLine("1", "r2")>>,
     <<TopicLine("0", "r1"), TopicLine("0", "r2")>>,
     <<TopicLine("1", ""), TopicLine("0", "r1"), TopicLine("1", "r2")>>}

SelectorFailed == [failed |-> TRUE, lines |-> <<>>]

SelectorSaid(lines) == [failed |-> FALSE, lines |-> lines]

\* Filter responses of a run: one known id, or nothing usable.
PipelineFilterResponses ==
    {[lines |-> <<FilterLine("article", "1")>>, json |-> NoJson],
     [lines |-> <<FilterLine("article", "2")>>, json |-> NoJson],
     [lines |-> <<>>, json |-> NoJson]}

\* (a failing selector call is not absorbed)
SelectTopicsPropagates(outcome, topics) ==
    IF outcome.failed
    THEN [raised |-> TRUE, topics |-> topics, selected |-> <<>>]
    ELSE LET res == ResolveSelection(ParseTopicSelection(outcome.lines, topics), topics)
         IN [raised |-> FALSE, topics |-> res.topics, selected |-> res.selected]

\* TopicAnalyzer.select_topics as execute sees it: every exception is
\* absorbed into the empty list.
SelectTopics(outcome, topics) ==
    IF outcome.failed
    THEN [raised |-> FALSE, topics |-> topics, selected |-> <<>>]
    ELSE LET res == ResolveSelection(ParseTopicSelection(outcome.lines, topics), topics)
         IN [raised |-> FALSE, topics |-> res.topics, selected |-> res.selected]

\* ReportFormatter.append_reference_news: the body, a heading and one line
\* per filtered article; the result is never the empty string.
AppendReferenceNews(content, filtered_news) ==
    [empty |-> FALSE, body |-> content, references |-> filtered_news]

NoReport == [topic_id |-> -1, title |-> "",
             content |-> [empty |-> TRUE, body |-> EmptyContent, references |-> <<>>],
             reference_news |-> <<>>]

\* A coroutine process_topic(topic, news_list) before its first step;
\* over_requests records whether one of its generate_report_content calls
\* made more than MaxAttempts backend requests.
NewTask(topic) ==
    [pc |-> "start", topic |-> topic, step1 |-> <<>>, filtered_news |-> <<>>,
     report_content |-> NoResult, content_valid |-> FALSE, retry_count |-> 0,
     log |-> <<>>, over_requests |-> FALSE, report |-> NoReport]

Terminal == {"report", "skipped"}

\* ReportFormatter.compile_report and Report.from_dict.
CompileReport(topic, report_content, filtered_news) ==
    [topic_id |-> topic.topic_id, title |-> report_content.title,
     content |-> AppendReferenceNews(report_content.content, filtered_news),
     reference_news |-> filtered_news]

\* (collection stops at the first task without a report)
RECURSIVE CollectReportsUntilSkipped(_)
CollectReportsUntilSkipped(ts) ==
    IF ts = <<>> THEN <<>>
    ELSE IF Head(ts).pc # "report" THEN <<>>
    ELSE <<Head(ts).report>> \o CollectReportsUntilSkipped(Tail(ts))

\* The reports of the tasks listed in `order`, in that order.
RECURSIVE ReportsAlong(_, _)
ReportsAlong(order, ts) ==
    IF order = <<>> THEN <<>>
    ELSE (IF ts[Head(order)].pc = "report" THEN <<ts[Head(order)].report>> ELSE <<>>)
         \o ReportsAlong(Tail(order), ts)

\* (the results are taken in the order in which the tasks ended)
CollectReportsAsFinished(ts) == ReportsAlong(e_finished, ts)

\* Step 5 of execute: the results that are neither None nor an exception.
RECURSIVE CollectReports(_)
CollectReports(ts) ==
    IF ts = <<>> THEN <<>>
    ELSE (IF Head(ts).pc = "report" THEN <<Head(ts).report>> ELSE <<>>)
         \o CollectReports(Tail(ts))

ExeIdle ==
    /\ e_pc = "idle" /\ e_news = <<>> /\ e_topics = <<>>
    /\ e_selector = SelectorFailed /\ e_selected = <<>> /\ tasks = <<>>
    /\ e_reports = <<>> /\ e_saved = "no" /\ e_finished = <<>>
    /\ e_topics_file = <<>>

ExeInit ==
    /\ e_pc = "start" /\ e_news = <<>> /\ e_topics = <<>>
    /\ e_selector = SelectorFailed /\ e_selected = <<>> /\ tasks = <<>>
    /\ e_reports = <<>> /\ e_saved = "no" /\ e_finished = <<>>
    /\ e_topics_file = <<>>

\* Step 1 of execute: load the batch; an empty batch ends the run.
Load ==
    /\ e_pc = "start"
    /\ \E batch \in PipelineBatches :
         /\ e_news' = batch
         /\ e_pc' = IF batch = <<>> THEN "returned" ELSE "loaded"
    /\ UNCHANGED <<e_topics, e_selector, e_selected, tasks, e_reports, e_saved,
                   e_finished,
                   e_topics_file>>
    /\ UNCHANGED exeOthers

\* Step 2: TopicAnalyzer.analyze_news, which writes the topics file when it
\* has topics; no topics ends the run.
Analyze ==
    /\ e_pc = "loaded"
    /\ LET k == AdjustNumTopics(Len(e_news), PipelineMinTopics, DefaultMaxTopics) IN
       \E analysisRaises \in BOOLEAN :
       \E lda \in PipelineLda(Len(ProcessedDocs(e_news)), k) :
         LET topics ==
               IF ModelingRaises(e_news) \/ ProcessedDocs(e_news) = <<>>
                  \/ analysisRaises
               THEN <<>> ELSE ModeledTopics(e_news, lda, k)
         IN /\ e_topics' = topics
            /\ e_topics_file' = topics
            /\ e_pc' = IF topics = <<>> THEN "returned" ELSE "analyzed"
    /\ UNCHANGED <<e_news, e_selector, e_selected, tasks, e_reports, e_saved,
                   e_finished>>
    /\ UNCHANGED exeOthers

\* Steps 3 and 4: select the topics and create one coroutine per selected
\* topic; an empty selection ends the run.
Select ==
    /\ e_pc = "analyzed"
    /\ \E outcome \in {SelectorFailed} \cup {SelectorSaid(l) : l \in PipelineSelections} :
         LET r == SelectTopics(outcome, e_topics) IN
         /\ e_selector' = outcome
         /\ IF r.raised
            THEN /\ e_pc' = "raised"
                 /\ UNCHANGED <<e_topics, e_selected, tasks>>
            ELSE /\ e_topics' = r.topics
                 /\ e_selected' = r.selected
                 /\ tasks' = [i \in 1..Len(r.selected) |-> NewTask(r.selected[i])]
                 /\ e_pc' = IF r.selected = <<>> THEN "returned" ELSE "running"
    /\ UNCHANGED <<e_news, e_reports, e_saved, e_finished,
                   e_topics_file>>
    /\ UNCHANGED exeOthers

\* The completion order after a step of task i that left the tasks as ts.
FinishedAfter(i, ts) ==
    IF ts[i].pc \in Terminal THEN Append(e_finished, i) ELSE e_finished

\* The ids of the batch, in order.
NewsIds == [i \in 1..Len(e_news) |-> e_news[i].id]

\* The filter has returned `filtered` (non-empty) to task i: the topic's
\* article_ids, count and weighted_count are overwritten.
TopicAfterFilter(topic, filtered) ==
    [topic EXCEPT !.article_ids = filtered,
                  !.count = Len(filtered),
                  !.weighted_count =
                      SeqSum([x \in 1..Len(filtered) |->
                                 SourceWeight(e_news[filtered[x]].source)])]

\* process_topic enters filter_related_news: step 1 on the topic's present
\* article_ids.  An empty step 1 ends the task with None; a prompt that
\* cannot be built gives the first step-1 articles back at once; otherwise
\* the task waits for the backend.
TaskFilterStart(i) ==
    /\ e_pc = "running"
    /\ tasks[i].pc = "start"
    /\ LET step1 == TopicRelatedNews(NewsIds, e_topics[tasks[i].topic].article_ids) IN
       \E prompt \in BOOLEAN :
         IF FilterReturnsEarly(step1)
         THEN /\ tasks' = [tasks EXCEPT ![i].pc = "skipped"]
              /\ UNCHANGED e_topics
         ELSE IF ~prompt
         THEN /\ tasks' = [tasks EXCEPT ![i].pc = "synthesize",
                                        ![i].step1 = step1,
                                        ![i].filtered_news = Take(step1, FallbackLimit)]
              /\ e_topics' = [e_topics EXCEPT ![tasks[i].topic] =
                                TopicAfterFilter(@, Take(step1, FallbackLimit))]
         ELSE /\ tasks' = [tasks EXCEPT ![i].pc = "filtering", ![i].step1 = step1]
              /\ UNCHANGED e_topics
    /\ e_finished' = FinishedAfter(i, tasks')
    /\ UNCHANGED <<e_pc, e_news, e_selector, e_selected, e_reports, e_saved,
                   e_topics_file>>
    /\ UNCHANGED exeOthers

\* The filter's backend call ends: its answer is parsed and mapped, or it
\* raised and the first step-1 articles are returned.
TaskFilterEnd(i) ==
    /\ e_pc = "running"
    /\ tasks[i].pc = "filtering"
    /\ \E filtered \in
           {Take(tasks[i].step1, FallbackLimit)}
           \cup {FinalNews(ParseNewsFiltering(resp, tasks[i].step1), tasks[i].step1) :
                    resp \in PipelineFilterResponses} :
         IF filtered = <<>>
         THEN /\ tasks' = [tasks EXCEPT ![i].pc = "skipped"]
              /\ UNCHANGED e_topics
         ELSE /\ tasks' = [tasks EXCEPT ![i].pc = "synthesize",
                                        ![i].filtered_news = filtered]
              /\ e_topics' = [e_topics EXCEPT ![tasks[i].topic] =
                                TopicAfterFilter(@, filtered)]
    /\ e_finished' = FinishedAfter(i, tasks')
    /\ UNCHANGED <<e_pc, e_news, e_selector, e_selected, e_reports, e_saved,
                   e_topics_file>>
    /\ UNCHANGED exeOthers

\* The first generate_report_content call of the task.  When it raises, the
\* handler of process_topic returns None.
TaskSynthesize(i) ==
    /\ e_pc = "running"
    /\ tasks[i].pc = "synthesize"
    /\ \E prompt \in BOOLEAN : \E outs \in SynthesisScripts(1) :
         LET run == IF prompt THEN GenRun(outs)
                    ELSE [kind |-> "raise", result |-> NoResult]
             made == IF prompt THEN GenRequests(outs) ELSE 0 IN
         tasks' = IF run.kind = "raise"
                  THEN [tasks EXCEPT ![i].pc = "skipped",
                                     ![i].over_requests = made > MaxAttempts,
                                     ![i].log = Append(@, "E")]
                  ELSE [tasks EXCEPT ![i].pc = "validate",
                                     ![i].report_content = OrPlaceholder(run.result),
                                     ![i].over_requests = made > MaxAttempts,
                                     ![i].log = Append(@, "S")]
    /\ e_finished' = FinishedAfter(i, tasks')
    /\ UNCHANGED <<e_pc, e_news, e_topics, e_selector, e_selected, e_reports, e_saved,
                   e_topics_file>>
    /\ UNCHANGED exeOthers

\* validate_content on the generated content, then the loop test.
TaskValidate(i) ==
    /\ e_pc = "running"
    /\ tasks[i].pc = "validate"
    /\ \E verdict \in Verdicts :
         LET valid == ValidateContent(tasks[i].report_content, MinWords, MaxWords, verdict) IN
         tasks' = [tasks EXCEPT ![i].content_valid = valid,
                                ![i].log = Append(@, IF valid THEN "V+" ELSE "V-"),
                                ![i].pc = IF RetryAgain(valid, tasks[i].retry_count)
                                          THEN "retry" ELSE "assemble"]
    /\ e_finished' = FinishedAfter(i, tasks')
    /\ UNCHANGED <<e_pc, e_news, e_topics, e_selector, e_selected, e_reports, e_saved,
                   e_topics_file>>
    /\ UNCHANGED exeOthers

\* One iteration of `while not content_valid and retry_count < 3`: the
\* content is generated again; content_valid is left as it is.
TaskRetry(i) ==
    /\ e_pc = "running"
    /\ tasks[i].pc = "retry"
    /\ \E prompt \in BOOLEAN : \E outs \in SynthesisScripts(tasks[i].retry_count + 2) :
         LET run == IF prompt THEN GenRun(outs)
                    ELSE [kind |-> "raise", result |-> NoResult]
             made == IF prompt THEN GenRequests(outs) ELSE 0 IN
         tasks' = IF run.kind = "raise"
                  THEN [tasks EXCEPT ![i].pc = "skipped",
                                     ![i].retry_count = @ + 1,
                                     ![i].over_requests = @ \/ made > MaxAttempts,
                                     ![i].log = Append(@, "E")]
                  ELSE [tasks EXCEPT ![i].retry_count = @ + 1,
                                     ![i].report_content = run.result,
                                     ![i].over_requests = @ \/ made > MaxAttempts,
                                     ![i].log = Append(@, "S"),
                                     ![i].pc = IF RetryAgain(tasks[i].content_valid,
                                                             tasks[i].retry_count + 1)
                                               THEN "retry" ELSE "assemble"]
    /\ e_finished' = FinishedAfter(i, tasks')
    /\ UNCHANGED <<e_pc, e_news, e_topics, e_selector, e_selected, e_reports, e_saved,
                   e_topics_file>>
    /\ UNCHANGED exeOthers

\* compile_report and Report.from_dict on the last generated content.
TaskAssemble(i) ==
    /\ e_pc = "running"
    /\ tasks[i].pc = "assemble"
    /\ tasks' = [tasks EXCEPT ![i].pc = "report",
                              ![i].log = Append(@, "A"),
                              ![i].report = CompileReport(e_topics[tasks[i].topic],
                                                tasks[i].report_content,
                                                tasks[i].filtered_news)]
    /\ e_finished' = FinishedAfter(i, tasks')
    /\ UNCHANGED <<e_pc, e_news, e_topics, e_selector, e_selected, e_reports, e_saved,
                   e_topics_file>>
    /\ UNCHANGED exeOthers

\* Steps 5 and 6: gather has every result; the reports are collected in
\* task order and saved when there are any.  A failing save raises.
Collect ==
    /\ e_pc = "running"
    /\ \A i \in 1..Len(tasks) : tasks[i].pc \in Terminal
    /\ LET reports == CollectReports(tasks) IN
       \E saveRaises \in BOOLEAN :
         IF reports = <<>>
         THEN /\ e_pc' = "returned"
              /\ UNCHANGED <<e_reports, e_saved>>
         ELSE IF saveRaises
         THEN /\ e_pc' = "raised"
              /\ e_saved' = "failed"
              /\ UNCHANGED e_reports
         ELSE /\ e_pc' = "returned"
              /\ e_saved' = "written"
              /\ e_reports' = reports
    /\ UNCHANGED <<e_news, e_topics, e_selector, e_selected, tasks, e_finished,
                   e_topics_file>>
    /\ UNCHANGED exeOthers

\* Any step of task i.
TaskStep(i) ==
    \/ TaskFilterStart(i) \/ TaskFilterEnd(i) \/ TaskSynthesize(i)
    \/ TaskValidate(i) \/ TaskRetry(i) \/ TaskAssemble(i)

\* The event loop resumes some task at the step it waits for.
FilterStart == \E i \in 1..Len(tasks) : TaskFilterStart(i)

FilterEnd == \E i \in 1..Len(tasks) : TaskFilterEnd(i)

Synthesize == \E i \in 1..Len(tasks) : TaskSynthesize(i)

Validate == \E i \in 1..Len(tasks) : TaskValidate(i)

Retry == \E i \in 1..Len(tasks) : TaskRetry(i)

Assemble == \E i \in 1..Len(tasks) : TaskAssemble(i)

ExeNext ==
    \/ Load \/ Analyze \/ Select \/ Collect
    \/ FilterStart \/ FilterEnd \/ Synthesize \/ Validate \/ Retry \/ Assemble

\* C1: for every selected topic whose filtered article set is non-empty,
\* process_topic ends in the Report state and never in Skipped, whatever
\* the synthesizer does: a task that ended without a report had an empty
\* filtered set.
C1_FilteredTopicNeverSkipped ==
    \A i \in 1..Len(tasks) :
        tasks[i].pc = "skipped" => tasks[i].filtered_news = <<>>

\* The number of tasks that ended with a report.
ReportCount == Cardinality({i \in 1..Len(tasks) : tasks[i].pc = "report"})

\* C2: one task is started per selected topic and every task runs to
\* completion: a task that ended (with or without a report) is never
\* touched again, a step of one task leaves its siblings' progress alone, a
\* task that has not ended can always take its next step, execute finishes
\* only after every task has ended, it raises only when saving the reports
\* fails, and the report of every task that reached Report is in the
\* result, in task order.
C2_SiblingsCompleteAndReportsKept ==
    /\ [](/\ e_pc \in {"running", "returned", "raised"} /\ e_selected # <<>> =>
                /\ Len(tasks) = Len(e_selected)
                /\ \A i \in 1..Len(tasks) : tasks[i].topic = e_selected[i]
          /\ e_pc = "running" =>
                \A i \in 1..Len(tasks) :
                    tasks[i].pc \notin Terminal => ENABLED TaskStep(i)
          /\ e_pc \in {"returned", "raised"} =>
                \A i \in 1..Len(tasks) : tasks[i].pc \in Terminal
          /\ e_pc = "raised" => e_saved = "failed" /\ ReportCount > 0
          /\ e_pc = "returned" =>
                /\ Len(e_reports) = ReportCount
                /\ \A i \in 1..Len(tasks) :
                     tasks[i].pc = "report" =>
                       LET p == Cardinality({j \in 1..i : tasks[j].pc = "report"})
                       IN e_reports[p] = tasks[i].report)
    /\ [][\A i \in 1..Len(tasks) :
            /\ tasks[i].pc \in Terminal => tasks'[i] = tasks[i]
            /\ tasks'[i] # tasks[i] =>
                 \A j \in 1..Len(tasks) : j # i => tasks'[j] = tasks[j]]_vars

\* A run returned the report of a task although an earlier task of the same
\* batch ended without a report.
C2_Witness ==
    /\ e_pc = "returned"
    /\ \E i, j \in 1..Len(tasks) :
         /\ i < j
         /\ tasks[i].pc = "skipped"
         /\ tasks[j].pc = "report"
         /\ \E p \in 1..Len(e_reports) : e_reports[p] = tasks[j].report

\* C3: per topic, Synthesize -> Validate -> (Assemble | Synthesize): every
\* synthesis that returned is followed by a validation before anything else
\* happens, a passing validation is followed by the assembly only, and a
\* synthesis other than the first directly follows a failed validation.
C3_EverySynthesisValidated ==
    \A i \in 1..Len(tasks) :
      LET log == tasks[i].log IN
      \A p \in 1..(Len(log) - 1) :
        /\ log[p] = "S" => log[p + 1] \in {"V+", "V-"}
        /\ log[p] = "V+" => log[p + 1] = "A"
        /\ log[p + 1] \in {"S", "E"} => log[p] = "V-"

\* execute has returned the empty list without tasks and without a file.
NothingDone ==
    /\ e_pc = "returned" /\ e_reports = <<>> /\ tasks = <<>> /\ e_saved = "no"

\* C9: execute returns an empty report list, without raising, without
\* starting a task and without writing a reports file, whenever no articles
\* are loaded, modeling yields no topics (as it does when no document
\* survives preprocessing), or selection yields nothing (as it does for a
\* response without a usable line and for a failed selector call).
C9_NothingToDoReturnsEmpty ==
    /\ e_pc = "raised" => e_selected # <<>>
    /\ (e_pc # "start" /\ e_news = <<>>) => NothingDone
    /\ (e_pc \notin {"start", "loaded"} /\ ProcessedDocs(e_news) = <<>>) =>
           e_topics = <<>>
    /\ (e_pc \notin {"start", "loaded"} /\ e_topics = <<>>) => NothingDone
    /\ (e_pc \notin {"start", "loaded", "analyzed"}
        /\ (e_selector.failed
            \/ \A x \in 1..Len(e_selector.lines) : e_selector.lines[x].kind # "topic"))
           => e_selected = <<>>
    /\ (e_pc \notin {"start", "loaded", "analyzed"} /\ e_selected = <<>>) =>
           NothingDone

\* Topics were modeled, the selector's response had no usable line, and
\* execute returned.
C9_Witness ==
    /\ e_pc = "returned"
    /\ e_topics # <<>>
    /\ e_selector = SelectorSaid(<<OtherLine>>)
    /\ e_selected = <<>>

\* C14 as claimed: the reports returned by execute are ordered by the
\* completion order of the per-topic tasks, not by the order of the
\* selected topics.
C14_ReportsInCompletionOrder ==
    e_pc = "returned" => e_reports = ReportsAlong(e_finished, tasks)

\* C14 amended: the reports returned by execute are ordered by the order of
\* the selected topics (the order in which the tasks were handed to
\* gather), whatever the order in which the tasks completed.
C14_ReportsInSelectionOrder ==
    e_pc = "returned" =>
      e_reports = ReportsAlong([i \in 1..Len(tasks) |-> i], tasks)

\* Two tasks ended with different reports, the later-selected one first,
\* and execute returned both.
C14_Witness ==
    /\ e_pc = "returned"
    /\ Len(e_reports) >= 2
    /\ \E x, y \in 1..Len(e_finished) :
         /\ x < y
         /\ e_finished[x] > e_finished[y]
         /\ tasks[e_finished[x]].pc = "report"
         /\ tasks[e_finished[y]].pc = "report"
         /\ tasks[e_finished[x]].report # tasks[e_finished[y]].report

\* The selected topics (by position) whose task, or one of whose tasks,
\* ended with a report.
ReportedTopics == {tasks[i].topic : i \in {j \in 1..Len(tasks) : tasks[j].pc = "report"}}

\* C15: the batch result of execute contains exactly one Report for each
\* selected topic whose task ended in Report and none for any other topic;
\* in particular no two reports of one batch carry the same topic_id.
C15_OneReportPerTopic ==
    e_pc = "returned" =>
      /\ Len(e_reports) = Cardinality(ReportedTopics)
      /\ \A p \in 1..Len(e_reports) :
           \E t \in ReportedTopics : e_topics[t].topic_id = e_reports[p].topic_id
      /\ \A p, q \in 1..Len(e_reports) :
           p # q => e_reports[p].topic_id # e_reports[q].topic_id

\* execute returned two reports for one topic that was selected twice.
C15_Witness ==
    /\ e_pc = "returned"
    /\ \E p, q \in 1..Len(e_reports) :
         p # q /\ e_reports[p].topic_id = e_reports[q].topic_id

\* A report is fully assembled: it is the report of a task that went
\* through compile_report.
Assembled(report) ==
    \E i \in 1..Len(tasks) :
        /\ tasks[i].pc = "report"
        /\ tasks[i].log[Len(tasks[i].log)] = "A"
        /\ tasks[i].report = report

\* C16: every Report that execute returns or persists has a non-empty
\* title and a non-empty content (a non-empty body with the reference
\* section appended), and the reports file is written only after all topic
\* tasks have finished and only with fully assembled reports.
C16_ReportsCompleteAndSavedLast ==
    /\ \A i \in 1..Len(tasks) :
         tasks[i].pc = "report" =>
           /\ tasks[i].report.title # ""
           /\ ~tasks[i].report.content.empty
           /\ ~tasks[i].report.content.body.empty
           /\ tasks[i].report.content.references = tasks[i].filtered_news
    /\ \A p \in 1..Len(e_reports) :
         /\ e_reports[p].title # ""
         /\ ~e_reports[p].content.empty
         /\ Assembled(e_reports[p])
    /\ e_saved # "no" => \A i \in 1..Len(tasks) : tasks[i].pc \in Terminal
    /\ e_saved = "written" => (e_pc = "returned" /\ e_reports # <<>>)
    /\ (e_pc = "returned" /\ e_reports # <<>>) => e_saved = "written"

\* The reports file was written with the report of a task whose first
\* content failed validation and was generated again.
C16_Witness ==
    /\ e_saved = "written"
    /\ \E i \in 1..Len(tasks) :
         /\ tasks[i].pc = "report"
         /\ tasks[i].retry_count = MaxRetries
         /\ \E p \in 1..Len(e_reports) : e_reports[p] = tasks[i].report

\* Task i has overwritten the article_ids, count and weighted_count of its
\* Topic object: it does so exactly when its filtered set is not empty.
WroteTopic(i) == tasks[i].filtered_news # <<>>

\* C17: during the per-topic fan-out each Topic object is mutated by at
\* most one process_topic task: no two tasks of a run have written the
\* same Topic object.
C17_TopicWrittenByOneTask ==
    \A i, j \in 1..Len(tasks) :
        (i # j /\ tasks[i].topic = tasks[j].topic) =>
            ~(WroteTopic(i) /\ WroteTopic(j))

\* Two tasks of one run hold the same Topic object, both have written it,
\* and the object now carries the article_ids of one of them only.
C17_Witness ==
    \E i, j \in 1..Len(tasks) :
        /\ i # j
        /\ tasks[i].topic = tasks[j].topic
        /\ WroteTopic(i) /\ WroteTopic(j)
        /\ tasks[i].filtered_news # tasks[j].filtered_news


\* The weight process_topic takes for an article of the batch.
FilteredWeight(id) ==
    IF e_news[id].source = "wire" THEN 150 ELSE 100

\* Topic object t carries the values recomputed from a filtered set: count
\* is the number of its article_ids, weighted_count the sum of their source
\* weights, and the article_ids are among those the modeling stage gave it.
TopicRecomputed(t) ==
    /\ e_topics[t].count = Len(e_topics[t].article_ids)
    /\ e_topics[t].weighted_count =
          SeqSum([x \in 1..Len(e_topics[t].article_ids) |->
                     FilteredWeight(e_topics[t].article_ids[x])])
    /\ Range(e_topics[t].article_ids) \subseteq Range(e_topics_file[t].article_ids)

\* The topics file holds for topic t what the Topic object holds.
TopicPersistedAsFiltered(t) ==
    /\ e_topics_file[t].article_ids = e_topics[t].article_ids
    /\ e_topics_file[t].count = e_topics[t].count
    /\ e_topics_file[t].weighted_count = e_topics[t].weighted_count

\* The part of C25 about the Topic object: a task that got a non-empty
\* filtered set has overwritten the object before it synthesizes, with the
\* set of the task that wrote last when several tasks hold the object.
C25_TopicObjectRecomputed ==
    \A i \in 1..Len(tasks) :
      WroteTopic(i) =>
        /\ TopicRecomputed(tasks[i].topic)
        /\ \E j \in 1..Len(tasks) :
             /\ tasks[j].topic = tasks[i].topic
             /\ e_topics[tasks[i].topic].article_ids = tasks[j].filtered_news
        /\ (\A j \in 1..Len(tasks) : j # i => tasks[j].topic # tasks[i].topic) =>
             e_topics[tasks[i].topic].article_ids = tasks[i].filtered_news

\* C25: a task that got a non-empty filtered set has overwritten its
\* topic's article_ids, count and weighted_count from that set before it
\* synthesizes; count = len(article_ids), the article_ids are a subset of
\* the modeling-stage ones, and the persisted topic holds these values.
C25_FilteredValuesPersisted ==
    \A i \in 1..Len(tasks) :
      WroteTopic(i) =>
        /\ TopicRecomputed(tasks[i].topic)
        /\ TopicPersistedAsFiltered(tasks[i].topic)

\* A task has a report for a topic whose filtered set is smaller than the
\* article_ids the modeling stage gave it.
C25_Witness ==
    \E i \in 1..Len(tasks) :
        /\ tasks[i].pc = "report"
        /\ WroteTopic(i)
        /\ Len(tasks[i].filtered_news) < Len(e_topics_file[tasks[i].topic].article_ids)
        /\ e_pc = "returned"

\* The calls of the content generator (returned or raised) and of the
\* validator that task i has made so far.
SynthesizerCalls(i) ==
    Cardinality({j \in 1..Len(tasks[i].log) : tasks[i].log[j] \in {"S", "E"}})

ValidatorCalls(i) ==
    Cardinality({j \in 1..Len(tasks[i].log) : tasks[i].log[j] \in {"V+", "V-"}})

\* The resources one task has used stay within their limits, and execute
\* raises only from its own steps: topic selection or the saving of reports.
TaskWithinBounds ==
    /\ \A i \in 1..Len(tasks) :
         /\ SynthesizerCalls(i) <= 1 + MaxRetries
         /\ tasks[i].retry_count <= MaxRetries
         /\ ~tasks[i].over_requests
         /\ ValidatorCalls(i) <= 1
    /\ e_pc = "raised" => (tasks = <<>> \/ e_saved = "failed")

\* A step never takes a task back into the filter: the filter is entered
\* from the start of the task only, and nothing returns to the start.
FilterEnteredOnce ==
    Len(tasks') = Len(tasks) =>
        \A i \in 1..Len(tasks) :
          /\ tasks'[i].pc = "start" => tasks[i].pc = "start"
          /\ tasks'[i].pc = "filtering" => tasks[i].pc \in {"start", "filtering"}
          /\ tasks[i].pc \in Terminal => tasks'[i] = tasks[i]

AllTasksEnded == \A i \in 1..Len(tasks) : tasks[i].pc \in Terminal

\* C28: every process_topic task ends in Report or Skipped when each backend
\* call returns or fails; a task enters the filter once, calls the content
\* generator at most 1 + 3 times with at most 3 backend requests per call,
\* calls the validator at most once, and no task makes execute raise.
C28_TasksTerminateWithinBounds ==
    /\ []TaskWithinBounds
    /\ [][FilterEnteredOnce]_vars
    /\ (e_pc = "running") ~> AllTasksEnded

\* A task that used every retry and ended with a report whose content is
\* short: such content is returned by the third backend request only.
C28_Witness ==
    \E i \in 1..Len(tasks) :
      /\ tasks[i].pc = "report"
      /\ SynthesizerCalls(i) = 1 + MaxRetries
      /\ tasks[i].report_content.content.words = MinWords - 1
      /\ ValidatorCalls(i) = 1

----------------------------------------------------------------------------
(* ReportValidator.validate_content *)

\* ReportValidator.__init__: the limits used when an argument is None or 0.
DefaultMinWords == 500
DefaultMaxWords == 1500

\* `min_words or self.default_min_words`
OrDefault(words, default) == IF words = 0 THEN default ELSE words

\* What the quality call gives: the call raises; a text that is not JSON; a
\* JSON text that is no object; an object with a 'pass' entry that is true,
\* false, truthy without being true ("yes"), falsy without being false (0)
\* or missing, and with 'issues' that are strings or are not.
ValAnswer(kind, pass, issues) == [kind |-> kind, pass |-> pass, issues |-> issues]

NoAnswer == ValAnswer("none", "missing", "strings")

ValAnswers ==
    {ValAnswer(k, "missing", "strings") : k \in {"raise", "notjson", "notobject"}}
    \cup {ValAnswer("object", p, i) :
            p \in {"true", "false", "truthy", "falsy", "missing"},
            i \in {"strings", "malformed"}}

\* validation_result.get('pass', False) is falsy.
PassIsFalsy(answer) == answer.pass \in {"false", "falsy", "missing"}

\* What validate_content makes of the answer: json.loads raising is caught
\* by the inner handler; a raising call, `.get` on a non-object and joining
\* issues that are not strings are caught by the outer handler.
VerdictOf(answer) ==
    IF answer.kind \in {"raise", "notjson", "notobject"} THEN "unusable"
    ELSE IF ~PassIsFalsy(answer) THEN "pass"
    ELSE IF answer.issues = "malformed" THEN "unusable"
    ELSE "fail"

\* The structural and the length check of the invocation.
BasicValid ==
    /\ ValidateReportFormat(v_report)
    /\ ValidateWordCount(v_report.content, OrDefault(v_min, DefaultMinWords),
                         OrDefault(v_max, DefaultMaxWords))

ValIdle ==
    /\ v_report = NoResult /\ v_min = 0 /\ v_max = 0 /\ v_prompt = TRUE
    /\ v_pc = "idle" /\ v_calls = 0 /\ v_answer = NoAnswer /\ v_valid = FALSE

ValInit ==
    /\ v_report \in [title : {"", "T"},
                     content : {EmptyContent} \cup {Content(w, 1) : w \in WordCounts}]
    /\ v_min \in {0, MinWords}
    /\ v_max \in {0, MaxWords}
    /\ v_prompt \in BOOLEAN
    /\ v_pc = "start"
    /\ v_calls = 0
    /\ v_answer = NoAnswer
    /\ v_valid = FALSE

\* The format or the word count is wrong: False is returned at once.
ValidateRejectsBasic ==
    /\ v_pc = "start"
    /\ ~BasicValid
    /\ v_valid' = ValidateContent(v_report, OrDefault(v_min, DefaultMinWords),
                                  OrDefault(v_max, DefaultMaxWords), "unusable")
    /\ v_pc' = "returned"
    /\ UNCHANGED <<v_report, v_min, v_max, v_prompt, v_calls, v_answer>>
    /\ UNCHANGED valOthers

\* A validation prompt cannot be built: the outer handler returns the basic
\* result; the backend was not called.
ValidatePromptFails ==
    /\ v_pc = "start"
    /\ BasicValid
    /\ ~v_prompt
    /\ v_valid' = ValidateContent(v_report, OrDefault(v_min, DefaultMinWords),
                                  OrDefault(v_max, DefaultMaxWords), "unusable")
    /\ v_pc' = "returned"
    /\ UNCHANGED <<v_report, v_min, v_max, v_prompt, v_calls, v_answer>>
    /\ UNCHANGED valOthers

\* The backend is asked for its verdict.
ValidateAsks ==
    /\ v_pc = "start"
    /\ BasicValid
    /\ v_prompt
    /\ \E answer \in ValAnswers :
         /\ v_answer' = answer
         /\ v_valid' = ValidateContent(v_report, OrDefault(v_min, DefaultMinWords),
                                       OrDefault(v_max, DefaultMaxWords),
                                       VerdictOf(answer))
    /\ v_calls' = v_calls + 1
    /\ v_pc' = "returned"
    /\ UNCHANGED <<v_report, v_min, v_max, v_prompt>>
    /\ UNCHANGED valOthers

ValNext == ValidateRejectsBasic \/ ValidatePromptFails \/ ValidateAsks

\* C13: validate_content consults the backend only after the structural and
\* the length check passed; when the backend call fails or its answer
\* cannot be parsed the result is the structural+length result (valid); and
\* content that passed both checks is rejected only on a parsed verdict
\* whose pass flag is not true.  (No step of validate_content ends in an
\* exception: every outcome of the backend call leads to "returned".)
C13_QualityFailureNeverRejects ==
    v_pc = "returned" =>
      /\ v_calls > 0 => BasicValid
      /\ ~BasicValid => (~v_valid /\ v_calls = 0)
      /\ (BasicValid /\ (~v_prompt \/ v_answer.kind \in {"raise", "notjson"})) => v_valid
      /\ (BasicValid /\ ~v_valid) =>
            /\ v_answer.kind = "object"
            /\ v_answer.pass # "true"

\* Content that passed both checks was accepted although the backend's
\* answer was not JSON.
C13_Witness ==
    /\ v_pc = "returned"
    /\ BasicValid
    /\ v_calls = 1
    /\ v_answer.kind = "notjson"
    /\ v_valid

----------------------------------------------------------------------------
(* LLMService.chat *)

\* @retry(stop=stop_after_attempt(3), ...)
ChatAttempts == 3

\* Exceptions of the API call that do not name context_length_exceeded, and
\* a completion without content (`.strip()` on None).
TransientErrors == {"RateLimitError", "APITimeoutError", "AttributeError"}

\* Texts a completion may hold, before `.strip()`.
ChatTexts == {"", " text "}

\* str.strip on the texts above.
Strip(text) == IF text = " text " THEN "text" ELSE text

\* What one attempt of the wrapped function ends with: the stripped text, or
\* the exception leaving its `except` clause.  An error whose message holds
\* "context_length_exceeded" is replaced by TokenLimitError, any other is
\* re-raised as it is.
AttemptOk(text) == [raised |-> "", text |-> Strip(text)]

AttemptRaises(error) == [raised |-> error, text |-> ""]

AttemptOutcomes(too_large) ==
    {AttemptRaises(e) : e \in TransientErrors}
    \cup (IF too_large THEN {AttemptRaises("TokenLimitError")}
          ELSE {AttemptOk(t) : t \in ChatTexts})

\* tenacity after an attempt: no retry condition is given, so every
\* exception is retried; after the last attempt RetryError is raised
\* (reraise is not set), holding the last attempt's exception.
RetryDecision(attempt_number, outcome) ==
    IF outcome.raised = "" THEN "return"
    ELSE IF attempt_number >= ChatAttempts THEN "RetryError"
    ELSE "retry"

ChatIdle ==
    /\ c_too_large = FALSE /\ c_pc = "idle" /\ c_attempts = <<>>
    /\ c_result = "" /\ c_error = ""

ChatInit ==
    /\ c_too_large \in BOOLEAN /\ c_pc = "calling" /\ c_attempts = <<>>
    /\ c_result = "" /\ c_error = ""

\* One attempt and what tenacity does after it.
ChatAttempt ==
    /\ c_pc = "calling"
    /\ \E outcome \in AttemptOutcomes(c_too_large) :
         LET d == RetryDecision(Len(c_attempts) + 1, outcome) IN
         /\ c_attempts' = Append(c_attempts, outcome)
         /\ c_pc' = IF d = "return" THEN "returned"
                    ELSE IF d = "retry" THEN "calling" ELSE "raised"
         /\ c_result' = IF d = "return" THEN outcome.text ELSE c_result
         /\ c_error' = IF d \in {"return", "retry"} THEN c_error ELSE d
    /\ UNCHANGED c_too_large
    /\ UNCHANGED chatOthers

ChatNext == ChatAttempt

\* C18: a chat call whose prompt exceeds the backend's context limit fails
\* towards its caller with TokenLimitError, and a call that fails for
\* another reason after its 3 attempts fails with a different error.
C18_TokenLimitErrorReachesCaller ==
    c_pc = "raised" =>
      /\ (\E x \in 1..Len(c_attempts) : c_attempts[x].raised = "TokenLimitError")
            => c_error = "TokenLimitError"
      /\ (\A x \in 1..Len(c_attempts) : c_attempts[x].raised # "TokenLimitError")
            => c_error # "TokenLimitError"

\* A call whose every attempt hit the context limit has failed.
C18_Witness ==
    /\ c_pc = "raised"
    /\ c_too_large
    /\ Len(c_attempts) = ChatAttempts
    /\ \A x \in 1..Len(c_attempts) : c_attempts[x].raised = "TokenLimitError"

----------------------------------------------------------------------------
(* column_main.main and run_pipeline *)

\* The most regions one invocation names.
MaxRegions == 2

RegionCodes == {"tw", "us", "vt"}

\* The `regions` mapping of the configuration: no file (an empty mapping),
\* two regions, or a third region whose entry holds nothing.
RegionConfigs ==
    { <<>>,
      [r \in {"tw", "us"} |-> TRUE],
      [r \in {"tw", "us", "vt"} |-> r # "vt"] }

\* ConfigLoader.get_supported_regions: the keys of the mapping.
get_supported_regions(config) == DOMAIN config

\* ConfigLoader.get_region_info, as the truth value the runner tests.
get_region_info(config, region) ==
    IF region \in DOMAIN config THEN config[region] ELSE FALSE

RegionTuples ==
    UNION {[1..n -> RegionCodes] : n \in 1..MaxRegions}

RegionsRejectedFirstOnly(regions, supported) == regions[1] \notin supported

\* main's loop over regions_list: sys.exit(1) at the first region that is
\* not supported, before anything else is done.
RegionsRejected(regions, supported) ==
    \E x \in 1..Len(regions) : regions[x] \notin supported

\* How runner.run() may go: BaseReportGenerator fails before or after it
\* loads the articles, execute() raises because saving its reports failed,
\* or execute() returns no report or some.
RunOutcomes ==
    {"raised_before_load", "raised_after_load", "save_failed", "no_reports", "reports"}

\* The dict run() returns: its handler answers every exception with a dict
\* that has the key 'error' and no reports.
RunReturns(outcome) ==
    [error |-> outcome \notin {"no_reports", "reports"},
     global_reports |-> IF outcome = "reports" THEN 1 ELSE 0]

\* The constructor raised: run() was not called.
NoReturn == [error |-> FALSE, global_reports |-> -1]

\* `results[region] = {"successful": True, ...}` after run() returned,
\* whatever it returned.
RegionResult(region, returned) == [region |-> region, successful |-> TRUE]

MainIdle ==
    /\ i_config = <<>> /\ i_date = "none" /\ i_regions = <<>>
    /\ i_pc = "idle" /\ i_exit = -1 /\ i_next = 0 /\ i_runners = <<>>
    /\ i_dirs = {} /\ i_loaded = {} /\ i_written = {} /\ i_results = <<>>
    /\ i_returned = <<>>

MainInit ==
    /\ i_config \in RegionConfigs
    /\ i_date \in {"none", "valid", "invalid"}
    /\ i_regions \in RegionTuples
    /\ i_pc = "validating" /\ i_exit = -1 /\ i_next = 0 /\ i_runners = <<>>
    /\ i_dirs = {} /\ i_loaded = {} /\ i_written = {} /\ i_results = <<>>
    /\ i_returned = <<>>

\* main up to asyncio.run: a date that does not parse exits with 1, an
\* unsupported region exits with 1, otherwise the pipeline starts.
MainValidate ==
    /\ i_pc = "validating"
    /\ IF i_date = "invalid"
          \/ RegionsRejected(i_regions, get_supported_regions(i_config))
       THEN i_pc' = "exited" /\ i_exit' = 1 /\ i_next' = i_next
       ELSE i_pc' = "pipeline" /\ i_exit' = i_exit /\ i_next' = 1
    /\ UNCHANGED <<i_config, i_date, i_regions, i_runners, i_dirs, i_loaded,
                   i_written, i_results, i_returned>>
    /\ UNCHANGED mainOthers

\* One turn of run_pipeline's loop in which the runner's constructor raises
\* ValueError: the region has no information.
RunnerRefused ==
    /\ i_pc = "pipeline" /\ i_next <= Len(i_regions)
    /\ ~get_region_info(i_config, i_regions[i_next])
    /\ i_runners' = Append(i_runners, i_regions[i_next])
    /\ i_results' = Append(i_results,
                       [region |-> i_regions[i_next], successful |-> FALSE])
    /\ i_returned' = Append(i_returned, NoReturn)
    /\ i_next' = i_next + 1
    /\ UNCHANGED <<i_config, i_date, i_regions, i_pc, i_exit, i_dirs,
                   i_loaded, i_written>>
    /\ UNCHANGED mainOthers

\* One turn of the loop with a runner: its constructor makes the output
\* directory; run() writes the reports file when there are reports and the
\* execution summary unless the generation raised, and never raises.
RunnerRuns ==
    /\ i_pc = "pipeline" /\ i_next <= Len(i_regions)
    /\ get_region_info(i_config, i_regions[i_next])
    /\ \E outcome \in RunOutcomes :
         LET region == i_regions[i_next] IN
         /\ i_runners' = Append(i_runners, region)
         /\ i_dirs' = i_dirs \cup {region}
         /\ i_loaded' = IF outcome = "raised_before_load" THEN i_loaded
                        ELSE i_loaded \cup {region}
         /\ i_written' = IF outcome \in {"no_reports", "reports"}
                         THEN i_written \cup {region} ELSE i_written
         /\ i_results' = Append(i_results, RegionResult(region, RunReturns(outcome)))
         /\ i_returned' = Append(i_returned, RunReturns(outcome))
    /\ i_next' = i_next + 1
    /\ UNCHANGED <<i_config, i_date, i_regions, i_pc, i_exit>>
    /\ UNCHANGED mainOthers

\* The loop is over: run_pipeline returns and main ends.
PipelineEnds ==
    /\ i_pc = "pipeline" /\ i_next > Len(i_regions)
    /\ i_pc' = "exited" /\ i_exit' = 0
    /\ UNCHANGED <<i_config, i_date, i_regions, i_next, i_runners, i_dirs,
                   i_loaded, i_written, i_results, i_returned>>
    /\ UNCHANGED mainOthers

MainNext == MainValidate \/ RunnerRefused \/ RunnerRuns \/ PipelineEnds

\* C19: when a requested region is not supported, no runner is ever
\* constructed, no directory made, no article loaded and no file written for
\* any region of the invocation, and the invocation ends with exit code 1.
C19_UnsupportedRegionRejectsAll ==
    (\E r \in Range(i_regions) : r \notin get_supported_regions(i_config)) =>
      /\ i_runners = <<>> /\ i_results = <<>>
      /\ i_dirs = {} /\ i_loaded = {} /\ i_written = {}
      /\ i_pc # "pipeline"
      /\ i_pc = "exited" => i_exit = 1

\* An invocation with a good date, a supported region first and an
\* unsupported one after it has ended.
C19_Witness ==
    /\ i_pc = "exited" /\ i_date # "invalid"
    /\ Len(i_regions) >= 2
    /\ get_region_info(i_config, i_regions[1])
    /\ i_regions[2] \notin get_supported_regions(i_config)

\* Every turn of the loop leaves one entry in the results, and a run_pipeline
\* that returned has had one turn for every requested region.
EveryRegionProcessed ==
    /\ Len(i_results) = Len(i_returned)
    /\ \A p \in 1..Len(i_results) : i_results[p].region = i_regions[p]
    /\ (i_pc = "exited" /\ i_exit = 0) => Len(i_results) = Len(i_regions)

\* C30: run_pipeline processes every requested region in turn, the failure
\* of one never stopping the others, and marks a region successful only if
\* its run ended without an error: a run that ended with an error (execute
\* raised, or saving the reports failed) has successful = False.
C30_ErrorMarksRegionFailed ==
    /\ EveryRegionProcessed
    /\ \A p \in 1..Len(i_results) :
         p <= Len(i_returned) /\ i_returned[p].error => ~i_results[p].successful

\* The run of the first region ended with an error after its articles were
\* loaded, its entry says successful, and the second region was processed
\* and gave a report.
C30_Witness ==
    /\ Len(i_results) = 2 /\ Len(i_returned) = 2
    /\ i_returned[1].error /\ i_loaded # {} /\ i_written # {}
    /\ ~i_returned[2].error /\ i_returned[2].global_reports = 1
    /\ i_results[1].successful

----------------------------------------------------------------------------
(* models: Topic, Report, NewsArticle *)

\* Python values of the fields whose type varies: None, a str, an int, a
\* datetime, a dict with the key '$oid', a dict without it.
PyNone == [t |-> "None"]

PyStr(s) == [t |-> "str", v |-> s]

PyInt(n) == [t |-> "int", n |-> n]

PyDatetime(day, tz) == [t |-> "datetime", day |-> day, tz |-> tz]

PyOid(x) == [t |-> "dict", oid |-> x]

PyDict == [t |-> "dict"]

\* bool(x) of such a value.
Truthy(x) ==
    CASE x.t = "None" -> FALSE
      [] x.t = "str" -> x.v # ""
      [] x.t = "int" -> x.n # 0
      [] OTHER -> TRUE

\* str(x) of a str or an int.
PyStrOf(x) == IF x.t = "int" THEN PyStr(Str(x.n)) ELSE x

\* dict.get(key, default)
Get(data, key, default) == IF key \in DOMAIN data THEN data[key] ELSE default

\* The datetimes of the model: a day of January 2024 at midnight, naive or
\* with the UTC offset.
Days == {1, 2}

Offsets == {"", "+00:00"}

\* datetime.isoformat()
isoformat(dt) == "2024-01-0" \o Str(dt.day) \o "T00:00:00" \o dt.tz

\* datetime.fromisoformat(text): the datetime whose ISO text it is, or
\* ValueError.
fromisoformat(text) ==
    IF \E day \in Days, tz \in Offsets : isoformat(PyDatetime(day, tz)) = text
    THEN CHOOSE dt \in {PyDatetime(day, tz) : day \in Days, tz \in Offsets} :
           isoformat(dt) = text
    ELSE [t |-> "ValueError"]

\* datetime.strptime(text, '%Y-%m-%d %H:%M:%S')
strptime(text) ==
    IF \E day \in Days : text = "2024-01-0" \o Str(day) \o " 00:00:00"
    THEN CHOOSE dt \in {PyDatetime(day, "") : day \in Days} :
           text = "2024-01-0" \o Str(dt.day) \o " 00:00:00"
    ELSE [t |-> "ValueError"]

\* Texts a timestamp may come as: ISO with an offset, without, or with Z,
\* the plain format, and a text no format reads.
ZText(day) == "2024-01-0" \o Str(day) \o "T00:00:00Z"

PlainText(day) == "2024-01-0" \o Str(day) \o " 00:00:00"

TimestampTexts ==
    {isoformat(PyDatetime(day, tz)) : day \in Days, tz \in Offsets}
    \cup {ZText(day) : day \in Days} \cup {PlainText(day) : day \in Days}
    \cup {"Tomorrow"}

\* 'T' in text, and text.replace('Z', '+00:00'), on the texts above.
HasT(text) == text \notin {PlainText(day) : day \in Days}

ReplaceZ(text) ==
    IF \E day \in Days : text = ZText(day)
    THEN isoformat(PyDatetime(CHOOSE day \in Days : text = ZText(day), "+00:00"))
    ELSE text

\* _parse_datetime of Report and of NewsArticle: a str is parsed, as ISO
\* when it holds 'T' and in the plain format otherwise; a str no format
\* reads and every other value are returned as they are.  The second
\* format, with %Z, reads none of the texts above.
_parse_datetime(dt_value) ==
    IF dt_value.t = "str"
    THEN LET parsed == IF HasT(dt_value.v)
                       THEN fromisoformat(ReplaceZ(dt_value.v))
                       ELSE strptime(dt_value.v)
         IN IF parsed.t = "ValueError" THEN dt_value ELSE parsed
    ELSE dt_value

\* The published_at entry of to_dict: absent for a falsy value, the ISO
\* text of a datetime, any other value as it is.
PublishedEntry(published_at) ==
    IF ~Truthy(published_at) THEN <<>>
    ELSE IF published_at.t = "datetime"
         THEN "published_at" :> PyStr(isoformat(published_at))
         ELSE "published_at" :> published_at

\* An entry to_dict writes only for a non-empty list or text.
EntryIf(key, value, empty) == IF value = empty THEN <<>> ELSE key :> value

\* Topic.to_dict
TopicToDict(self) ==
    [topic_id |-> self.topic_id, content |-> self.content,
     count |-> self.count, weighted_count |-> self.weighted_count]
    @@ EntryIf("keywords", self.keywords, <<>>)
    @@ EntryIf("article_ids", self.article_ids, <<>>)
    @@ EntryIf("selection_reason", self.selection_reason, "")

\* Topic.from_dict; int() is applied to an integer.
TopicFromDict(data) ==
    [topic_id |-> data["topic_id"], content |-> data["content"],
     count |-> Get(data, "count", 0),
     weighted_count |-> Get(data, "weighted_count", 0),
     keywords |-> Get(data, "keywords", <<>>),
     article_ids |-> Get(data, "article_ids", <<>>),
     selection_reason |-> Get(data, "selection_reason", "")]

\* Report.to_dict
ReportToDict(self) ==
    [topic_id |-> self.topic_id, topic_content |-> self.topic_content,
     title |-> self.title, content |-> self.content,
     reference_news |-> self.reference_news]
    @@ PublishedEntry(self.published_at)

\* Report.from_dict
ReportFromDict(data) ==
    [topic_id |-> data["topic_id"], topic_content |-> data["topic_content"],
     published_at |->
        IF "published_at" \in DOMAIN data
        THEN _parse_datetime(data["published_at"])
        ELSE IF "publishedAt" \in DOMAIN data
             THEN _parse_datetime(data["publishedAt"])
             ELSE PyNone,
     title |-> Get(data, "title", ""), content |-> Get(data, "content", ""),
     reference_news |-> Get(data, "reference_news", <<>>)]

\* NewsArticle.from_dict, the id: the value under '$oid' as it is, a str or
\* an int through str(), anything else None.
ArticleId(data) ==
    IF "_id" \notin DOMAIN data THEN PyNone
    ELSE IF data["_id"].t = "dict" /\ "oid" \in DOMAIN data["_id"]
         THEN data["_id"].oid
         ELSE IF data["_id"].t \in {"str", "int"} THEN PyStrOf(data["_id"])
              ELSE PyNone

\* NewsArticle.from_dict
ArticleFromDict(data) ==
    [id |-> ArticleId(data),
     title |-> Get(data, "title", ""), summary |-> Get(data, "summary", ""),
     url |-> Get(data, "url", ""), source |-> Get(data, "source", ""),
     category |-> Get(data, "category", ""),
     published_at |->
        IF "publishedAt" \in DOMAIN data
        THEN _parse_datetime(data["publishedAt"])
        ELSE IF "published_at" \in DOMAIN data
             THEN _parse_datetime(data["published_at"])
             ELSE PyNone,
     topics |-> Get(data, "topics", <<>>)]

\* NewsArticle.to_dict
ArticleToDict(self) ==
    [title |-> self.title, summary |-> self.summary, url |-> self.url,
     source |-> self.source, category |-> self.category,
     topics |-> self.topics]
    @@ (IF Truthy(self.id) THEN "_id" :> self.id ELSE <<>>)
    @@ PublishedEntry(self.published_at)

to_dict(kind, self) ==
    CASE kind = "Topic" -> TopicToDict(self)
      [] kind = "Report" -> ReportToDict(self)
      [] kind = "NewsArticle" -> ArticleToDict(self)

from_dict(kind, data) ==
    CASE kind = "Topic" -> TopicFromDict(data)
      [] kind = "Report" -> ReportFromDict(data)
      [] kind = "NewsArticle" -> ArticleFromDict(data)

\* The topics the modeler and the selector make.
TopicObjects ==
    [topic_id : {0, 1}, content : {"tariffs"}, count : {0, 2},
     weighted_count : {0, 3}, keywords : {<<>>, <<"trade">>},
     article_ids : {<<>>, <<"5">>}, selection_reason : {"", "timely"}]

\* The reports the generator makes and the ones read back from a file.
ReportObjects ==
    [topic_id : {0, 1}, topic_content : {"tariffs"},
     published_at : {PyNone, PyStr("Tomorrow")}
                    \cup {PyDatetime(day, tz) : day \in Days, tz \in Offsets},
     title : {"", "Tariffs"}, content : {"", "text"},
     reference_news : {<<>>, <<[title |-> "n", url |-> "u"]>>}]

\* The forms an article's identifier is read in: a str, an int, an embedded
\* object holding either, an embedded object without '$oid'.
IdForms ==
    {PyStr("5"), PyStr("abc"), PyInt(5), PyOid(PyStr("5")), PyOid(PyStr("abc")),
     PyOid(PyInt(5)), PyDict}

\* The dictionaries an article is read from.
ArticleDicts ==
    { id @@ published @@ title @@ topics :
        id \in {<<>>} \cup {"_id" :> x : x \in IdForms},
        published \in {<<>>} \cup {"publishedAt" :> PyStr(ZText(1)),
                                   "published_at" :> PyStr(PlainText(2)),
                                   "published_at" :> PyStr("Tomorrow")},
        title \in {<<>>, "title" :> "Tariffs"},
        topics \in {<<>>, "topics" :> <<[topic_id |-> 1, probability |-> 60]>>} }

RtIdle ==
    /\ d_kind = "" /\ d_input = <<>> /\ d_pc = "idle"
    /\ d_obj = <<>> /\ d_dict = <<>> /\ d_back = <<>>

RtInit ==
    /\ \/ d_kind = "Topic" /\ d_input \in TopicObjects
       \/ d_kind = "Report" /\ d_input \in ReportObjects
       \/ d_kind = "NewsArticle" /\ d_input \in ArticleDicts
    /\ d_pc = "input" /\ d_obj = <<>> /\ d_dict = <<>> /\ d_back = <<>>

\* The object: a topic or a report as made, an article as read.
Build ==
    /\ d_pc = "input"
    /\ d_obj' = IF d_kind = "NewsArticle" THEN ArticleFromDict(d_input)
                ELSE d_input
    /\ d_pc' = "built"
    /\ UNCHANGED <<d_kind, d_input, d_dict, d_back>>
    /\ UNCHANGED rtOthers

Dump ==
    /\ d_pc = "built"
    /\ d_dict' = to_dict(d_kind, d_obj)
    /\ d_pc' = "dumped"
    /\ UNCHANGED <<d_kind, d_input, d_obj, d_back>>
    /\ UNCHANGED rtOthers

Rebuild ==
    /\ d_pc = "dumped"
    /\ d_back' = from_dict(d_kind, d_dict)
    /\ d_pc' = "rebuilt"
    /\ UNCHANGED <<d_kind, d_input, d_obj, d_dict>>
    /\ UNCHANGED rtOthers

RtNext == Build \/ Dump \/ Rebuild

\* The fields of an object that hold a value: a non-empty text or list, a
\* truthy id or timestamp, every number.
TypedFields == {"id", "published_at"}

TextFields ==
    {"content", "selection_reason", "topic_content", "title", "summary",
     "url", "source", "category"}

ListFields == {"keywords", "article_ids", "reference_news", "topics"}

Populated(obj, f) ==
    IF f \in TypedFields THEN Truthy(obj[f])
    ELSE IF f \in TextFields THEN obj[f] # ""
    ELSE IF f \in ListFields THEN obj[f] # <<>>
    ELSE TRUE

\* The text of the value an identifier holds, whatever its form.
IdText(x) ==
    IF x.t = "dict" THEN (IF x.oid.t = "int" THEN Str(x.oid.n) ELSE x.oid.v)
    ELSE IF x.t = "int" THEN Str(x.n) ELSE x.v

HasIdValue(data) ==
    /\ "_id" \in DOMAIN data
    /\ data["_id"] # PyDict

\* C20: an object rebuilt from its own dictionary equals the object on every
\* populated field, for topics, reports and articles; and an article read
\* from a str id, an int id or an embedded-object id holds the str of that
\* value as its id.
C20_RoundTripAndIdNormalised ==
    /\ d_pc = "rebuilt" =>
         \A f \in DOMAIN d_obj : Populated(d_obj, f) => d_back[f] = d_obj[f]
    /\ (d_kind = "NewsArticle" /\ d_pc # "input" /\ HasIdValue(d_input)) =>
         d_obj.id = PyStr(IdText(d_input["_id"]))

\* An article read from an embedded-object id holding an integer has been
\* rebuilt from its dictionary.
C20_Witness ==
    /\ d_kind = "NewsArticle" /\ d_pc = "rebuilt"
    /\ HasIdValue(d_input)
    /\ d_input["_id"] = PyOid(PyInt(5))

\* The same property for every identifier but an integer inside an embedded
\* object.
C20_HoldsForTextOid ==
    (HasIdValue(d_input) => d_input["_id"] # PyOid(PyInt(5))) =>
       C20_RoundTripAndIdNormalised

----------------------------------------------------------------------------
(* ReportValidator._count_words_multilingual *)

\* The longest text enumerated character by character, and the size of the
\* two long texts: that many ideographs, and that many one-letter words.
MaxChars == 5

LongText == 600

\* Characters by what the code asks of them: inside the two CJK ranges,
\* whitespace, in the punctuation list, or none of these.
CharClasses == {"cjk", "space", "punct", "latin"}

_is_chinese_char(char) == char = "cjk"

isspace(char) == char = "space"

_is_punctuation(char) == char = "punct" \/ isspace(char)

\* str.strip(): without the whitespace at both ends.
StripText(text) ==
    LET inked == {i \in 1..Len(text) : ~isspace(text[i])} IN
    IF text = <<>> THEN <<>>
    ELSE IF ~isspace(text[1]) /\ ~isspace(text[Len(text)]) THEN text
    ELSE IF inked = {} THEN <<>>
    ELSE LET first == CHOOSE i \in inked : \A j \in inked : i <= j
             last == CHOOSE i \in inked : \A j \in inked : j <= i
         IN [i \in 1..(last - first + 1) |-> text[first + i - 1]]

\* len(text.split()): the maximal runs of characters that are not
\* whitespace, counted at their first character.
SplitCount(text) ==
    Cardinality({i \in 1..Len(text) :
                   ~isspace(text[i]) /\ (i = 1 \/ isspace(text[i - 1]))})

\* The text with every ideograph, whitespace and punctuation character
\* replaced by a space.
NonChineseText(text) ==
    [i \in 1..Len(text) |->
        IF _is_chinese_char(text[i]) \/ isspace(text[i]) \/ _is_punctuation(text[i])
        THEN "space" ELSE text[i]]

CountWordsBySpaces(text) == SplitCount(StripText(text))

\* _count_words_multilingual.  `chinese_char_count > len(text) * 0.3` is
\* written in tenths: the float product decides as the exact one does for
\* every length below 5000.
_count_words_multilingual(text) ==
    IF text = <<>> THEN 0
    ELSE LET stripped == StripText(text)
             chinese_char_count ==
                 Cardinality({i \in 1..Len(stripped) : _is_chinese_char(stripped[i])})
             space_separated_words == SplitCount(stripped)
         IN IF 10 * chinese_char_count > 3 * Len(stripped)
            THEN chinese_char_count + SplitCount(NonChineseText(stripped))
            ELSE space_separated_words

\* The two long texts: ideographs without a space, and one-letter words
\* with one space between them.
AllChinese(n) == [i \in 1..n |-> "cjk"]

SingleLetterWords(n) ==
    [i \in 1..(2 * n - 1) |-> IF i % 2 = 1 THEN "latin" ELSE "space"]

WordCountTexts ==
    UNION {[1..n -> CharClasses] : n \in 0..MaxChars}
    \cup {AllChinese(LongText), SingleLetterWords(LongText)}

WcIdle == w_text = <<>> /\ w_pc = "idle" /\ w_count = 0

WcInit == w_text \in WordCountTexts /\ w_pc = "called" /\ w_count = 0

CountWords ==
    /\ w_pc = "called"
    /\ w_count' = _count_words_multilingual(w_text)
    /\ w_pc' = "returned"
    /\ UNCHANGED w_text
    /\ UNCHANGED wcOthers

WcNext == CountWords

\* What the count is measured against: the text without the whitespace at
\* its ends, its ideographs, and whether they are more than 30% of it.
Measured == StripText(w_text)

Ideographs == Cardinality({i \in 1..Len(Measured) : Measured[i] = "cjk"})

ChineseDominant == 10 * Ideographs > 3 * Len(Measured)

\* Whitespace-delimited words, counted at their last character.
WhitespaceWords ==
    Cardinality({i \in 1..Len(Measured) :
                   Measured[i] # "space"
                   /\ (i = Len(Measured) \/ Measured[i + 1] = "space")})

\* What is left once the ideographs are taken out, split at whitespace only:
\* the words that hold a character other than punctuation.
RemainingWhitespaceWords ==
    LET gap(i) == Measured[i] \in {"space", "cjk"} IN
    Cardinality({i \in 1..Len(Measured) :
                   /\ ~gap(i) /\ (i = 1 \/ gap(i - 1))
                   /\ \E j \in i..Len(Measured) :
                        /\ Measured[j] = "latin"
                        /\ \A k \in i..j : ~gap(k)})

\* What is left, split at whitespace, ideographs and punctuation alike: the
\* runs of other characters, counted at their last character.
RemainingRuns ==
    Cardinality({i \in 1..Len(Measured) :
                   Measured[i] = "latin"
                   /\ (i = Len(Measured) \/ Measured[i + 1] # "latin")})

\* C21: the count is the ideographs plus the remaining whitespace-delimited
\* words that are not punctuation when ideographs are more than 30% of the
\* text, and the whitespace-delimited words otherwise; 600 ideographs count
\* 600 and 600 one-letter words count 600.
C21_CountsWhitespaceDelimitedRemainder ==
    w_pc = "returned" =>
      /\ ChineseDominant => w_count = Ideographs + RemainingWhitespaceWords
      /\ ~ChineseDominant => w_count = WhitespaceWords
      /\ w_text = AllChinese(LongText) => w_count = LongText
      /\ w_text = SingleLetterWords(LongText) => w_count = LongText

\* C21, amended: in a text dominated by ideographs the remainder is split
\* at punctuation as well as at whitespace, so a word with punctuation
\* inside counts once per part.
C21_CountsRunsOfRemainder ==
    w_pc = "returned" =>
      /\ ChineseDominant => w_count = Ideographs + RemainingRuns
      /\ ~ChineseDominant => w_count = WhitespaceWords
      /\ w_text = AllChinese(LongText) => w_count = LongText
      /\ w_text = SingleLetterWords(LongText) => w_count = LongText

\* A text of ideographs and one word with punctuation inside was counted.
C21_Witness ==
    /\ w_pc = "returned"
    /\ w_text = <<"cjk", "cjk", "latin", "punct", "latin">>
    /\ w_count = 4

----------------------------------------------------------------------------
(* Specifications: one component at work, the others idle *)

InitGen == GenInit /\ AdjIdle /\ ModIdle /\ SelIdle /\ FilIdle /\ ExeIdle /\ ValIdle /\ ChatIdle /\ MainIdle /\ RtIdle /\ WcIdle

SpecGen == InitGen /\ [][GenNext]_vars

InitAdjust == AdjInit /\ GenIdle /\ ModIdle /\ SelIdle /\ FilIdle /\ ExeIdle /\ ValIdle /\ ChatIdle /\ MainIdle /\ RtIdle /\ WcIdle

SpecAdjust == InitAdjust /\ [][AdjNext]_vars

InitModeling == ModInit /\ GenIdle /\ AdjIdle /\ SelIdle /\ FilIdle /\ ExeIdle /\ ValIdle /\ ChatIdle /\ MainIdle /\ RtIdle /\ WcIdle

SpecModeling == InitModeling /\ [][ModNext]_vars

InitSelect == SelInit /\ GenIdle /\ AdjIdle /\ ModIdle /\ FilIdle /\ ExeIdle /\ ValIdle /\ ChatIdle /\ MainIdle /\ RtIdle /\ WcIdle

SpecSelect == InitSelect /\ [][SelNext]_vars

InitFilter == FilInit /\ GenIdle /\ AdjIdle /\ ModIdle /\ SelIdle /\ ExeIdle /\ ValIdle /\ ChatIdle /\ MainIdle /\ RtIdle /\ WcIdle

SpecFilter == InitFilter /\ [][FilNext]_vars

InitExecute == ExeInit /\ GenIdle /\ AdjIdle /\ ModIdle /\ SelIdle /\ FilIdle /\ ValIdle /\ ChatIdle /\ MainIdle /\ RtIdle /\ WcIdle

SpecExecute == InitExecute /\ [][ExeNext]_vars

\* The event loop resumes a task whenever the call it awaits has returned
\* or failed, and execute goes on when gather has every result.
SpecExecuteFair == InitExecute /\ [][ExeNext]_vars /\ WF_vars(ExeNext)

InitValidate == ValInit /\ AdjIdle /\ ModIdle /\ SelIdle /\ FilIdle /\ GenIdle /\ ExeIdle /\ ChatIdle /\ MainIdle /\ RtIdle /\ WcIdle

SpecValidate == InitValidate /\ [][ValNext]_vars

InitChat == ChatInit /\ AdjIdle /\ ModIdle /\ SelIdle /\ FilIdle /\ GenIdle /\ ExeIdle /\ ValIdle /\ MainIdle /\ RtIdle /\ WcIdle

SpecChat == InitChat /\ [][ChatNext]_vars

InitInvocation == MainInit /\ AdjIdle /\ ModIdle /\ SelIdle /\ FilIdle /\ GenIdle /\ ExeIdle /\ ValIdle /\ ChatIdle /\ RtIdle /\ WcIdle

SpecInvocation == InitInvocation /\ [][MainNext]_vars

InitRoundTrip == RtInit /\ AdjIdle /\ ModIdle /\ SelIdle /\ FilIdle /\ GenIdle /\ ExeIdle /\ ValIdle /\ ChatIdle /\ MainIdle /\ WcIdle

SpecRoundTrip == InitRoundTrip /\ [][RtNext]_vars

InitWordCount == WcInit /\ AdjIdle /\ ModIdle /\ SelIdle /\ FilIdle /\ GenIdle /\ ExeIdle /\ ValIdle /\ ChatIdle /\ MainIdle /\ RtIdle

SpecWordCount == InitWordCount /\ [][WcNext]_vars

====
